---------------------------- MODULE Spec2Model ----------------------------
(***************************************************************************)
(* padington-server: the lobby (src/lobby/server.rs), the channel actors   *)
(* (src/channel/mod.rs) and the client sessions (src/client/mod.rs) as one *)
(* state machine.  Every task is a set of atomic actions, one per handler  *)
(* or await point; queues (mpsc), one-shots and the broadcast ring are     *)
(* sequences and flags.                                                    *)
(***************************************************************************)
EXTENDS Naturals, Integers, Sequences, FiniteSets, TLC

(***************************************************************************)
(* Bounds of the model.                                                    *)
(***************************************************************************)
NSessions == 2
MaxChannels == 2
MaxSteps == 2
MaxDeclared == 1
MaxBreaks == 1
MaxFrames == 2
MaxFlood == 21
MaxLag == 101
MaxInq == 2
MaxSegments == 4
MaxTokens == 5
MaxInits == 3

(***************************************************************************)
(* Program constants.                                                      *)
(***************************************************************************)
EndQueueCap == 5
SigQueueCap == 20
BroadcastCap == 100

Sessions == 1..NSessions
UserIDs == 0..(NSessions - 1)
ChannelIDs == 0..(MaxChannels - 1)
PadPath == <<"", "pad">>
Paths == {PadPath}

\* The URL paths clients connect with, each as the sequence of its pieces
\* between the '/' characters: /pad, /Pad, the folder /room/, pad (no leading
\* slash) and /a b/pad (a directory name with a blank).
AllPaths ==
    {PadPath, <<"", "Pad">>, <<"", "room", "">>, <<"pad">>, <<"", "a b", "pad">>}

NoChannel == 0 - 1
NoUser == 0 - 1
NoFile == <<"nofile">>
NoReply == [set |-> FALSE, ok |-> FALSE, doc |-> <<>>, version |-> 0, peers |-> {}]

(***************************************************************************)
(* The document and its steps.  The node tree and Step::apply belong to    *)
(* the document-transform library; a document is a sequence of characters  *)
(* and a step inserts one character at a position, failing when the        *)
(* position lies outside the document.                                     *)
(***************************************************************************)
InitialDoc == <<"p">>

InsA == [pos |-> 0, ch |-> "a"]
InsB == [pos |-> 1, ch |-> "b"]
InsBad == [pos |-> 7, ch |-> "x"]

Batches == { <<>>, <<InsA>>, <<InsB, InsA>>, <<InsA, InsBad>> }

Failed == <<"apply-failed">>

StepApply(step, d) ==
    IF step.pos <= Len(d)
    THEN SubSeq(d, 1, step.pos) \o <<step.ch>> \o SubSeq(d, step.pos + 1, Len(d))
    ELSE Failed

\* A fold that keeps what the steps before the failing one produced.
RECURSIVE ApplyWhileOk(_, _)
ApplyWhileOk(d, rest) ==
    IF rest = <<>> \/ StepApply(Head(rest), d) = Failed THEN d
    ELSE ApplyWhileOk(StepApply(Head(rest), d), Tail(rest))

apply_steps_partial(d, steps) == ApplyWhileOk(d, steps)

\* apply_steps: the first step on the document, the rest folded over the
\* result; the first failure is returned (the `?` operator).
RECURSIVE ApplyRest(_, _)
ApplyRest(d, rest) ==
    IF d = Failed THEN Failed
    ELSE IF rest = <<>> THEN d
    ELSE ApplyRest(StepApply(Head(rest), d), Tail(rest))

apply_steps(d, steps) == ApplyRest(StepApply(Head(steps), d), Tail(steps))

\* to_markdown / from_markdown of the document library, as the file's text.
ToMarkdown(d) == <<"md", d>>
FromMarkdown(text) == text[2]

(***************************************************************************)
(* Text frames and their parser (src/command.rs).  A frame is a sequence   *)
(* of tokens: the separator "|" and words that contain no separator.       *)
(***************************************************************************)
Bar == "|"

HasBar(input) == \E i \in 1..Len(input) : input[i] = Bar

FirstBar(input) ==
    CHOOSE i \in 1..Len(input) :
        input[i] = Bar /\ \A j \in 1..(i - 1) : input[j] # Bar

LastBar(input) ==
    CHOOSE i \in 1..Len(input) :
        input[i] = Bar /\ \A j \in (i + 1)..Len(input) : input[j] # Bar

split_arg_last(input) ==
    IF HasBar(input)
    THEN [cmd |-> SubSeq(input, 1, LastBar(input) - 1), some |-> TRUE,
          arg |-> SubSeq(input, LastBar(input) + 1, Len(input))]
    ELSE [cmd |-> input, some |-> FALSE, arg |-> <<>>]

\* split_arg: the text before the first separator and, when there is one,
\* the text after it.
split_arg(input) ==
    IF HasBar(input)
    THEN [cmd |-> SubSeq(input, 1, FirstBar(input) - 1), some |-> TRUE,
          arg |-> SubSeq(input, FirstBar(input) + 1, Len(input))]
    ELSE [cmd |-> input, some |-> FALSE, arg |-> <<>>]

\* CommandKind::from_str
CommandKindOf(word) ==
    IF word \in {<<"init">>, <<"chat">>, <<"steps">>, <<"update">>, <<"webrtc">>}
    THEN word[1]
    ELSE "unknown"

Numerals == {"0", "1", "7"}

NumVal(d) == CASE d = "0" -> 0 [] d = "1" -> 1 [] d = "7" -> 7

ParseNumberLenient(word) ==
    IF Len(word) = 1 /\ word[1] \in Numerals
    THEN [ok |-> TRUE, val |-> NumVal(word[1])]
    ELSE [ok |-> TRUE, val |-> 0]

\* str::parse::<u64>() / ::<usize>()
ParseNumber(word) ==
    IF Len(word) = 1 /\ word[1] \in Numerals
    THEN [ok |-> TRUE, val |-> NumVal(word[1])]
    ELSE [ok |-> FALSE, val |-> 0]

ParseOk(kind, num, text) ==
    [ok |-> TRUE, kind |-> kind, num |-> num, text |-> text, err |-> ""]

ParseErr(err, kind) ==
    [ok |-> FALSE, kind |-> kind, num |-> 0, text |-> <<>>, err |-> err]

\* Command::from_str
ParseCommand(input) ==
    LET sa == split_arg(input)
        kind == CommandKindOf(sa.cmd)
        sb == split_arg(sa.arg)
        n == ParseNumber(sb.cmd)
    IN  IF kind = "unknown" THEN ParseErr("UnknownCommand", kind)
        ELSE IF kind = "init" THEN ParseOk(kind, 0, sa.arg)
        ELSE IF ~sa.some THEN ParseErr("MissingArg", kind)
        ELSE IF kind \in {"chat", "update"} THEN ParseOk(kind, 0, sa.arg)
        ELSE IF ~sb.some \/ ~n.ok THEN ParseErr("MissingArg", kind)
        ELSE ParseOk(kind, n.val, sb.arg)

\* serde_json::from_str of the payloads, on the payload words of the model.
JsonSteps(text) ==
    IF text = <<"[a]">> THEN [ok |-> TRUE, val |-> <<InsA>>]
    ELSE IF text = <<"[]">> THEN [ok |-> TRUE, val |-> <<>>]
    ELSE [ok |-> FALSE, val |-> <<>>]

\* UserConfig: an Option is the empty set (None) or a singleton (Some).
NoConfig == [name |-> {}, audio |-> {}]

JsonUpdate(text) ==
    CASE text = <<"{n}">> -> [ok |-> TRUE, val |-> [name |-> {"n"}, audio |-> {}]]
      [] text = <<"{a}">> -> [ok |-> TRUE, val |-> [name |-> {}, audio |-> {TRUE}]]
      [] text = <<"{na}">> -> [ok |-> TRUE, val |-> [name |-> {"n"}, audio |-> {TRUE}]]
      [] text = <<"{}">> -> [ok |-> TRUE, val |-> NoConfig]
      [] OTHER -> [ok |-> FALSE, val |-> NoConfig]

JsonValue(text) ==
    IF text \in {<<"{sdp}">>, <<"{n}">>, <<"[a]">>, <<"[]">>}
    THEN [ok |-> TRUE, val |-> text[1]]
    ELSE [ok |-> FALSE, val |-> ""]

\* The text frames the clients send besides `init` and well-formed `steps`.
SigFrames ==
    { <<"webrtc", Bar, "1", Bar, "{sdp}">>,    \* a signal for user#1
      <<"webrtc", Bar, "7", Bar, "{sdp}">>,    \* a signal for nobody
      <<"webrtc", Bar, "1", Bar, "{">>,        \* payload is not JSON
      <<"webrtc", Bar, "x", Bar, "{sdp}">>,    \* receiver is not a number
      <<"webrtc", Bar, "1">>,                  \* no payload
      <<"steps", Bar, "0", Bar, "{">>,         \* payload is not JSON
      <<"steps", Bar, "x", Bar, "[a]">>,       \* version is not a number
      <<"update", Bar, "{">>,                  \* payload is not JSON
      <<"chat">>,                              \* no argument
      <<"bogus", Bar, "1">> }                  \* unknown verb

FloodFrame == <<"webrtc", Bar, "1", Bar, "{sdp}">>

VARIABLES
    \* lobby (LobbyState, LobbyServer::run)
    next_id,          \* Counter<ChannelID>
    channels,         \* ChannelID -> LobbyChannel (live = has an entry)
    channel_names,    \* path -> ChannelID
    jrq,              \* the join-request queue
    endq,             \* the end-notification queue
    lobby_up,         \* FALSE once the lobby loop has broken
    \* channel actors
    apc,              \* "none" | "spawned" | "run" | "sigwait" | "exited" |
                      \* "panicked"
    apath,            \* ChannelComms.path
    ter,              \* the termination one-shot has been fired
    reqq,             \* the request queue (msg_rx)
    doc, version,     \* ChannelState.doc_state
    members,          \* ChannelState.member_data (its keys)
    \* the file system
    file,
    \* client sessions (handle_connection)
    pc,               \* "new" | "joining" | "run" | "initwait" |
                      \* "done" (left after submit_close) | "aborted"
    chan, uid,        \* the JoinResponse
    ws,               \* the WebSocket: "open" | "broken"
    initreply,        \* the Init one-shot
    bct,              \* the session's broadcast subscription (pending items)
    \* the client at the other end of the WebSocket
    cinit, cdoc, cver,
    \* history
    nsteps,           \* Steps requests submitted so far
    nbreaks,          \* connections lost so far
    acclog,           \* per channel: the batches accepted, in order
    last,             \* per channel: the Steps request handled last
    joined, ended,    \* per channel: joins granted / End notifications handled
    initDeq,          \* per channel: Init requests the actor dequeued
    closed,           \* sessions whose Close the actor has dequeued
    loaded,           \* per channel: the document the actor started from
    \* directed signals and the frames written to the clients
    sigq,             \* per session: its private signal queue (sig_rx)
    held,             \* per channel: the signal the actor is waiting to enqueue
    wsout,            \* per session: the error| and webrtc| frames written
    nframes,          \* text frames handled so far
    sigsent,          \* the well-formed webrtc commands received so far
    \* broadcast delivery
    npub,             \* per channel: broadcasts published so far
    lastfwd,          \* per session: number of the broadcast forwarded last
    lagged,           \* per session: its receiver was overrun (Lagged pending)
    errseen,          \* per session: an overrun of its receiver was logged
    inq,              \* per session: inbound Pong frames not yet read
    mdata,            \* per channel: the member records, by UserID
    \* Folder::check_name
    cn_dirs,          \* the folders of the configuration that set save_dir
    cn_path, cn_res,  \* the path to classify and the result
    \* split_arg
    sa_in, sa_out     \* the text to split and the result (an Option)

lobbyVars == <<next_id, channels, channel_names, jrq, endq, lobby_up>>
actorVars == <<apc, apath, ter, reqq, doc, version, members>>
sessVars == <<pc, chan, uid, ws, initreply, bct>>
clientVars == <<cinit, cdoc, cver>>
histVars == <<nsteps, nbreaks, acclog, last, joined, ended, initDeq, closed,
              loaded>>
sigVars == <<sigq, held, wsout, nframes, sigsent>>
ordVars == <<npub, lastfwd, lagged, errseen>>
fnVars == <<cn_dirs, cn_path, cn_res, sa_in, sa_out>>
extVars == <<ordVars, inq, mdata, fnVars>>
vars == <<lobbyVars, actorVars, file, sessVars, clientVars, histVars, sigVars,
          extVars>>

\* The public part of UserData; NoData where the map has no entry.
NoData == [name |-> "", audio |-> FALSE]

NoSteps ==
    [set |-> FALSE, src |-> NoUser, declared |-> 0, steps |-> <<>>,
     preVer |-> 0, preDoc |-> <<>>, postVer |-> 0, postDoc |-> <<>>,
     published |-> FALSE, panicked |-> FALSE]

NoSignal == [set |-> FALSE, sender |-> NoUser, reciever |-> NoUser, payload |-> ""]

NoEntry == [live |-> FALSE, count |-> 0, next_uid |-> 0, path |-> <<>>]

NoResult == [kind |-> "none", folder |-> "", dir |-> <<>>, name |-> ""]

InitSystem ==
    /\ next_id = 0
    /\ channels = [c \in ChannelIDs |-> NoEntry]
    /\ channel_names = [p \in AllPaths |-> NoChannel]
    /\ jrq = <<>>
    /\ endq = <<>>
    /\ lobby_up = TRUE
    /\ apc = [c \in ChannelIDs |-> "none"]
    /\ apath = [c \in ChannelIDs |-> <<>>]
    /\ ter = [c \in ChannelIDs |-> FALSE]
    /\ reqq = [c \in ChannelIDs |-> <<>>]
    /\ doc = [c \in ChannelIDs |-> <<>>]
    /\ version = [c \in ChannelIDs |-> 0]
    /\ members = [c \in ChannelIDs |-> {}]
    /\ file = [p \in AllPaths |-> NoFile]
    /\ pc = [s \in Sessions |-> "new"]
    /\ chan = [s \in Sessions |-> NoChannel]
    /\ uid = [s \in Sessions |-> NoUser]
    /\ ws = [s \in Sessions |-> "open"]
    /\ initreply = [s \in Sessions |-> NoReply]
    /\ bct = [s \in Sessions |-> <<>>]
    /\ cinit = [s \in Sessions |-> FALSE]
    /\ cdoc = [s \in Sessions |-> <<>>]
    /\ cver = [s \in Sessions |-> 0]
    /\ nsteps = 0
    /\ nbreaks = 0
    /\ acclog = [c \in ChannelIDs |-> <<>>]
    /\ last = [c \in ChannelIDs |-> NoSteps]
    /\ joined = [c \in ChannelIDs |-> 0]
    /\ ended = [c \in ChannelIDs |-> 0]
    /\ initDeq = [c \in ChannelIDs |-> 0]
    /\ closed = {}
    /\ loaded = [c \in ChannelIDs |-> <<>>]
    /\ sigq = [s \in Sessions |-> <<>>]
    /\ held = [c \in ChannelIDs |-> NoSignal]
    /\ wsout = [s \in Sessions |-> {}]
    /\ nframes = 0
    /\ sigsent = {}
    /\ npub = [c \in ChannelIDs |-> 0]
    /\ lastfwd = [s \in Sessions |-> 0]
    /\ lagged = [s \in Sessions |-> FALSE]
    /\ errseen = [s \in Sessions |-> FALSE]
    /\ inq = [s \in Sessions |-> 0]
    /\ mdata = [c \in ChannelIDs |-> [u \in UserIDs |-> NoData]]

Init ==
    /\ InitSystem
    /\ cn_dirs = {}
    /\ cn_path = <<>>
    /\ cn_res = NoResult
    /\ sa_in = <<>>
    /\ sa_out = {}

(***************************************************************************)
(* Messages.                                                               *)
(***************************************************************************)
Request(k, s, v, st) ==
    [kind |-> k, src |-> uid[s], sess |-> s, version |-> v, steps |-> st,
     reciever |-> NoUser, payload |-> "", text |-> <<>>, cfg |-> NoConfig]

SignalRequest(s, to, payload) ==
    [Request("Signal", s, 0, <<>>) EXCEPT !.reciever = to, !.payload = payload]

\* A Broadcast value; seq is its number in the channel's order of emission.
Broadcast(k, id, st) ==
    [kind |-> k, id |-> id, steps |-> st, seq |-> 0, text |-> <<>>, cfg |-> NoConfig]

\* The sessions holding a broadcast::Receiver of channel c: from the lobby's
\* grant until the session task returns.
Subscribers(c) == {s \in Sessions : chan[s] = c /\ pc[s] \in {"run", "initwait"}}

PublishFront(c, msg) ==
    LET m == [msg EXCEPT !.seq = npub[c] + 1]
    IN  [s \in Sessions |->
            IF s \in Subscribers(c) THEN <<m>> \o bct[s] ELSE bct[s]]

\* broadcast::Sender::send: every live receiver gets the message after the
\* ones it has not yet received; a receiver that already has BroadcastCap
\* of them pending loses the oldest.
Publish(c, msg) ==
    LET m == [msg EXCEPT !.seq = npub[c] + 1]
    IN  [s \in Sessions |->
            IF s \notin Subscribers(c) THEN bct[s]
            ELSE IF Len(bct[s]) < BroadcastCap THEN Append(bct[s], m)
            ELSE Append(Tail(bct[s]), m)]

\* The receivers that send overruns: their next receive is Err(Lagged).
Overrun(c) ==
    [s \in Sessions |->
        IF s \in Subscribers(c) /\ Len(bct[s]) >= BroadcastCap THEN TRUE
        ELSE lagged[s]]

\* The actor task still owns msg_rx: a send into the request queue succeeds.
ActorAlive(c) == apc[c] \in {"spawned", "run", "sigwait"}

\* mpsc::Sender::send of a session: the request is queued, or the send fails
\* because the receiver is gone and the request is dropped.
Submit(c, req) ==
    IF ActorAlive(c) THEN [reqq EXCEPT ![c] = Append(@, req)] ELSE reqq

(***************************************************************************)
(* The lobby: LobbyServer::run and LobbyState.                             *)
(***************************************************************************)
CounterSame(n) == n

\* Counter::next
CounterNext(n) == n + 1

CountAfterJoinSame(count) == count

\* handle_join_request, Entry::Occupied: channel.count += 1
CountAfterJoin(count) == count + 1

EndRemovesNever(count) == FALSE

EndRemovesEarly(count) == count >= 1

\* handle_end: channel.count.cmp(&1)
EndRemoves(count) == count = 1

CountAfterEndSame(count) == count

\* handle_end, Ordering::Greater: channel.count -= 1
CountAfterEnd(count) == count - 1

\* The path components made of ASCII letters, digits and '-' only.
AlnumDash == {"pad", "Pad", "room"}

LobbyCheckNameLax(path) == IF path[Len(path)] = "" THEN "Folder" ELSE "File"

LobbyCheckNameNoFolder(path) ==
    IF path[1] # "" \/ Len(path) < 2 THEN "Invalid"
    ELSE IF \A i \in 2..(Len(path) - 1) : path[i] \in AlnumDash
    THEN "File"
    ELSE "Invalid"

\* handle_join_request, check_name: the path must start with '/', every
\* component before the last must be a non-empty alphanumeric name, and an
\* empty last component makes it a folder.
LobbyCheckName(path) ==
    IF path[1] # "" \/ Len(path) < 2 THEN "Invalid"
    ELSE IF \A i \in 2..(Len(path) - 1) : path[i] \in AlnumDash
    THEN (IF path[Len(path)] = "" THEN "Folder" ELSE "File")
    ELSE "Invalid"

NameVacantAlways(path) == TRUE

\* handle_join_request: `self.channel_names.entry(msg.path.clone())` is Vacant.
\* The registry is keyed by the path as the client sent it.
NameVacant(path) == channel_names[path] = NoChannel

\* handle_join_request, Entry::Vacant with a File path: a new channel actor is
\* spawned and the requester is its first user.
JoinVacant ==
    /\ lobby_up
    /\ jrq # <<>>
    /\ NameVacant(Head(jrq).path)
    /\ LobbyCheckName(Head(jrq).path) = "File"
    /\ next_id < MaxChannels
    /\ LET msg == Head(jrq)
           s == msg.sess
           c == next_id
       IN  /\ jrq' = Tail(jrq)
           /\ next_id' = CounterNext(next_id)
           /\ apc' = [apc EXCEPT ![c] = "spawned"]
           /\ apath' = [apath EXCEPT ![c] = msg.path]
           /\ channels' = [channels EXCEPT ![c] =
                  [live |-> TRUE, count |-> 1, next_uid |-> CounterNext(0),
                   path |-> msg.path]]
           /\ channel_names' = [channel_names EXCEPT ![msg.path] = c]
           /\ pc' = [pc EXCEPT ![s] = "run"]
           /\ chan' = [chan EXCEPT ![s] = c]
           /\ uid' = [uid EXCEPT ![s] = 0]
           /\ joined' = [joined EXCEPT ![c] = @ + 1]
    /\ UNCHANGED <<endq, lobby_up, ter, reqq, doc, version, members, file,
                   ws, initreply, bct, clientVars, nsteps, nbreaks, acclog, last, ended,
                   initDeq, closed, loaded>>
    /\ UNCHANGED <<sigVars, extVars>>

\* handle_join_request, Entry::Vacant with an Invalid path: the reply is
\* Err(InvalidPath), which handle_connection returns as its error.
JoinInvalid ==
    /\ lobby_up
    /\ jrq # <<>>
    /\ NameVacant(Head(jrq).path)
    /\ LobbyCheckName(Head(jrq).path) = "Invalid"
    /\ jrq' = Tail(jrq)
    /\ pc' = [pc EXCEPT ![Head(jrq).sess] = "failed"]
    /\ UNCHANGED <<next_id, channels, channel_names, endq, lobby_up, actorVars,
                   file, chan, uid, ws, initreply, bct, clientVars, histVars,
                   sigVars, extVars>>

\* handle_join_request, Entry::Vacant with a Folder path: the reply is
\* Err(IsFolder).
JoinFolder ==
    /\ lobby_up
    /\ jrq # <<>>
    /\ NameVacant(Head(jrq).path)
    /\ LobbyCheckName(Head(jrq).path) = "Folder"
    /\ jrq' = Tail(jrq)
    /\ pc' = [pc EXCEPT ![Head(jrq).sess] = "isfolder"]
    /\ UNCHANGED <<next_id, channels, channel_names, endq, lobby_up, actorVars,
                   file, chan, uid, ws, initreply, bct, clientVars, histVars,
                   sigVars, extVars>>

\* handle_join_request, Entry::Occupied: the requester is attached to the
\* live channel.
JoinOccupied ==
    /\ lobby_up
    /\ jrq # <<>>
    /\ ~NameVacant(Head(jrq).path)
    /\ LET msg == Head(jrq)
           s == msg.sess
           c == channel_names[msg.path]
       IN  /\ jrq' = Tail(jrq)
           /\ channels' = [channels EXCEPT
                  ![c].count = CountAfterJoin(@),
                  ![c].next_uid = CounterNext(@)]
           /\ pc' = [pc EXCEPT ![s] = "run"]
           /\ chan' = [chan EXCEPT ![s] = c]
           /\ uid' = [uid EXCEPT ![s] = channels[c].next_uid]
           /\ joined' = [joined EXCEPT ![c] = @ + 1]
    /\ UNCHANGED <<next_id, channel_names, endq, lobby_up, actorVars, file,
                   ws, initreply, bct, clientVars, nsteps, nbreaks, acclog, last, ended,
                   initDeq, closed, loaded>>
    /\ UNCHANGED <<sigVars, extVars>>

\* handle_end
handle_end ==
    /\ lobby_up
    /\ endq # <<>>
    /\ LET sig == Head(endq)
           channel == channels[sig]
       IN  /\ endq' = Tail(endq)
           /\ ended' = [ended EXCEPT ![sig] = @ + 1]
           /\ IF ~channel.live \/ channel.count < 1
              THEN \* "Channel entry vanished" / "not cleaned up correctly"
                   /\ lobby_up' = FALSE
                   /\ UNCHANGED <<channels, channel_names, ter>>
              ELSE IF EndRemoves(channel.count)
              THEN /\ channels' = [channels EXCEPT ![sig] = NoEntry]
                   /\ channel_names' = [channel_names EXCEPT ![channel.path] = NoChannel]
                   /\ ter' = [ter EXCEPT ![sig] = TRUE]
                   /\ UNCHANGED lobby_up
              ELSE /\ channels' = [channels EXCEPT ![sig].count = CountAfterEnd(@)]
                   /\ UNCHANGED <<channel_names, ter, lobby_up>>
    /\ UNCHANGED <<next_id, jrq, apc, apath, reqq, doc, version, members, file,
                   sessVars, clientVars, nsteps, nbreaks, acclog, last, joined,
                   initDeq, closed, loaded>>
    /\ UNCHANGED <<sigVars, extVars>>

(***************************************************************************)
(* The channel actor: Channel::handle_messages and                         *)
(* ChannelComms::handle_request.                                           *)
(***************************************************************************)
\* handle_messages before the loop: the document is read from the file, or
\* seeded with the initial document (written back) when there is no file.
ActorStart(c) ==
    /\ apc[c] = "spawned"
    /\ LET p == apath[c]
           d == IF file[p] = NoFile THEN InitialDoc ELSE FromMarkdown(file[p])
       IN  /\ file' = IF file[p] = NoFile
                      THEN [file EXCEPT ![p] = ToMarkdown(InitialDoc)]
                      ELSE file
           /\ doc' = [doc EXCEPT ![c] = d]
           /\ loaded' = [loaded EXCEPT ![c] = d]
    /\ version' = [version EXCEPT ![c] = 0]
    /\ members' = [members EXCEPT ![c] = {}]
    /\ mdata' = [mdata EXCEPT ![c] = [u \in UserIDs |-> NoData]]
    /\ apc' = [apc EXCEPT ![c] = "run"]
    /\ UNCHANGED <<lobbyVars, apath, ter, reqq, sessVars, clientVars, nsteps,
                   nbreaks, acclog, last, joined, ended, initDeq, closed>>
    /\ UNCHANGED <<sigVars, ordVars, inq, fnVars>>

\* The loop's select(ter_fut, msg_fut) yields a request: the termination
\* one-shot is polled first, so a request is taken only while it is unfired.
Dequeues(c, kind) ==
    /\ apc[c] = "run"
    /\ ~ter[c]
    /\ reqq[c] # <<>>
    /\ Head(reqq[c]).kind = kind

\* `format!("Bear #{}", id.int_val())`
DefaultName(id) == "Bear #" \o ToString(id)

\* RequestKind::Init: the UserData of a member that sent no name.
NewData(id) == [name |-> DefaultName(id), audio |-> FALSE]

InitRosterNext(roster, id) == roster \cup {id, id + 1}

InitRosterStale(roster, id) == roster

\* RequestKind::Init: `member_data.insert(id, new_data)` comes before the
\* peers are collected for the reply.
InitRoster(roster, id) == roster \cup {id}

\* RequestKind::Init.  The reply goes to the one-shot the session waits on;
\* NewUser is published only when that send succeeded.
HandleInit(c) ==
    /\ Dequeues(c, "Init")
    /\ LET req == Head(reqq[c])
           roster == InitRoster(members[c], req.src)
           delivered == pc[req.sess] = "initwait"
       IN  /\ members' = [members EXCEPT ![c] = roster]
           /\ mdata' = [mdata EXCEPT ![c][req.src] = NewData(req.src)]
           /\ IF delivered
              THEN /\ initreply' = [initreply EXCEPT ![req.sess] =
                          [set |-> TRUE, ok |-> TRUE, doc |-> doc[c],
                           version |-> version[c], peers |-> roster]]
                   /\ bct' = Publish(c, Broadcast("NewUser", req.src, <<>>))
                   /\ npub' = [npub EXCEPT ![c] = @ + 1]
                   /\ lagged' = Overrun(c)
              ELSE UNCHANGED <<initreply, bct, npub, lagged>>
    /\ reqq' = [reqq EXCEPT ![c] = Tail(@)]
    /\ initDeq' = [initDeq EXCEPT ![c] = @ + 1]
    /\ UNCHANGED <<lobbyVars, apc, apath, ter, doc, version, file, pc, chan,
                   uid, ws, clientVars, nsteps, nbreaks, acclog, last, joined,
                   ended, closed, loaded>>
    /\ UNCHANGED <<sigVars, lastfwd, errseen, inq, fnVars>>

VersionAtMost(declared, current) == declared <= current

\* RequestKind::Steps: `version == c_state.doc_state.version`
VersionMatches(declared, current) == declared = current

VersionAfterOne(current, steps) == current + 1

\* RequestKind::Steps: `c_state.doc_state.version += steps.len()`
VersionAfter(current, steps) == current + Len(steps)

\* RequestKind::Steps: the batch is applied when its declared version is the
\* current one, it is not empty and every step applies.
Accepts(c, req) ==
    /\ VersionMatches(req.version, version[c])
    /\ req.steps # <<>>
    /\ apply_steps(doc[c], req.steps) # Failed

HandleStepsEmptyPublished(c) ==
    /\ Dequeues(c, "Steps")
    /\ LET req == Head(reqq[c])
           acc == Accepts(c, req)
           pub == acc \/ (VersionMatches(req.version, version[c]) /\ req.steps = <<>>)
           new_doc == IF acc THEN apply_steps(doc[c], req.steps) ELSE doc[c]
           new_ver == IF acc THEN VersionAfter(version[c], req.steps) ELSE version[c]
           panics == pub /\ Subscribers(c) = {}
       IN  /\ doc' = [doc EXCEPT ![c] = new_doc]
           /\ version' = [version EXCEPT ![c] = new_ver]
           /\ bct' = IF pub
                     THEN Publish(c, Broadcast("Steps", req.src, req.steps))
                     ELSE bct
           /\ npub' = IF pub THEN [npub EXCEPT ![c] = @ + 1] ELSE npub
           /\ lagged' = IF pub THEN Overrun(c) ELSE lagged
           /\ apc' = IF panics THEN [apc EXCEPT ![c] = "panicked"] ELSE apc
           /\ reqq' = [reqq EXCEPT ![c] = IF panics THEN <<>> ELSE Tail(@)]
           /\ acclog' = IF acc
                        THEN [acclog EXCEPT ![c] = Append(@,
                                 [declared |-> req.version, base |-> version[c],
                                  len |-> Len(req.steps)])]
                        ELSE acclog
           /\ last' = [last EXCEPT ![c] =
                  [set |-> TRUE, src |-> req.src, declared |-> req.version,
                   steps |-> req.steps, preVer |-> version[c], preDoc |-> doc[c],
                   postVer |-> new_ver, postDoc |-> new_doc,
                   published |-> bct' # bct, panicked |-> panics]]
    /\ UNCHANGED <<lobbyVars, apath, ter, members, file, pc, chan, uid, ws,
                   initreply, clientVars, nsteps, nbreaks, joined, ended,
                   initDeq, closed, loaded>>
    /\ UNCHANGED <<sigVars, lastfwd, errseen, inq, mdata, fnVars>>

\* RequestKind::Steps.  An accepted batch replaces the document, raises the
\* version and is published; `bct_tx.send(..).unwrap()` panics when no
\* receiver is left, which ends the actor task and drops its queue.
HandleSteps(c) ==
    /\ Dequeues(c, "Steps")
    /\ LET req == Head(reqq[c])
           acc == Accepts(c, req)
           new_doc == IF acc THEN apply_steps(doc[c], req.steps) ELSE doc[c]
           new_ver == IF acc THEN VersionAfter(version[c], req.steps) ELSE version[c]
           panics == acc /\ Subscribers(c) = {}
       IN  /\ doc' = [doc EXCEPT ![c] = new_doc]
           /\ version' = [version EXCEPT ![c] = new_ver]
           /\ bct' = IF acc
                     THEN Publish(c, Broadcast("Steps", req.src, req.steps))
                     ELSE bct
           /\ npub' = IF acc THEN [npub EXCEPT ![c] = @ + 1] ELSE npub
           /\ lagged' = IF acc THEN Overrun(c) ELSE lagged
           /\ apc' = IF panics THEN [apc EXCEPT ![c] = "panicked"] ELSE apc
           /\ reqq' = [reqq EXCEPT ![c] = IF panics THEN <<>> ELSE Tail(@)]
           /\ acclog' = IF acc
                        THEN [acclog EXCEPT ![c] = Append(@,
                                 [declared |-> req.version, base |-> version[c],
                                  len |-> Len(req.steps)])]
                        ELSE acclog
           /\ last' = [last EXCEPT ![c] =
                  [set |-> TRUE, src |-> req.src, declared |-> req.version,
                   steps |-> req.steps, preVer |-> version[c], preDoc |-> doc[c],
                   postVer |-> new_ver, postDoc |-> new_doc,
                   published |-> bct' # bct, panicked |-> panics]]
    /\ UNCHANGED <<lobbyVars, apath, ter, members, file, pc, chan, uid, ws,
                   initreply, clientVars, nsteps, nbreaks, joined, ended,
                   initDeq, closed, loaded>>
    /\ UNCHANGED <<sigVars, lastfwd, errseen, inq, mdata, fnVars>>

RosterAfterCloseSame(roster, id) == roster

\* RequestKind::Close: `c_state.member_data.remove(&id)`
RosterAfterClose(roster, id) == roster \ {id}

\* RequestKind::Close: the member is removed, UserLeft is published (a failed
\* publish is only logged) and the lobby is notified on the end queue.
HandleClose(c) ==
    /\ Dequeues(c, "Close")
    /\ Len(endq) < EndQueueCap
    /\ LET req == Head(reqq[c])
       IN  /\ members' = [members EXCEPT ![c] = RosterAfterClose(@, req.src)]
           /\ mdata' = [mdata EXCEPT ![c][req.src] = NoData]
           /\ bct' = Publish(c, Broadcast("UserLeft", req.src, <<>>))
           /\ closed' = closed \cup {req.sess}
    /\ npub' = [npub EXCEPT ![c] = @ + 1]
    /\ lagged' = Overrun(c)
    /\ endq' = Append(endq, c)
    /\ reqq' = [reqq EXCEPT ![c] = Tail(@)]
    /\ UNCHANGED <<next_id, channels, channel_names, jrq, lobby_up, apc, apath,
                   ter, doc, version, file, pc, chan, uid, ws, initreply,
                   clientVars, nsteps, nbreaks, acclog, last, joined, ended,
                   initDeq, loaded>>
    /\ UNCHANGED <<sigVars, lastfwd, errseen, inq, fnVars>>

Supplied(opt, old) == IF opt = {} THEN old ELSE CHOOSE v \in opt : TRUE

ApplyUpdateReset(member, cfg) ==
    [name |-> Supplied(cfg.name, ""), audio |-> Supplied(cfg.audio, FALSE)]

\* RequestKind::Update: `if let Some(new_name) = &cfg.name` and
\* `if let Some(audio) = &cfg.audio` on the member's record.
ApplyUpdate(member, cfg) ==
    [name |-> Supplied(cfg.name, member.name),
     audio |-> Supplied(cfg.audio, member.audio)]

\* RequestKind::Update.  `member_data.get_mut(&id).unwrap()` panics for a
\* user that is not in the roster; a failed publish is only logged.
HandleUpdate(c) ==
    /\ Dequeues(c, "Update")
    /\ LET req == Head(reqq[c])
           panics == req.src \notin members[c]
       IN  IF panics
           THEN /\ apc' = [apc EXCEPT ![c] = "panicked"]
                /\ reqq' = [reqq EXCEPT ![c] = <<>>]
                /\ UNCHANGED <<mdata, bct, npub, lagged>>
           ELSE /\ mdata' = [mdata EXCEPT ![c][req.src] = ApplyUpdate(@, req.cfg)]
                /\ bct' = Publish(c, [Broadcast("Update", req.src, <<>>)
                                          EXCEPT !.cfg = req.cfg])
                /\ npub' = [npub EXCEPT ![c] = @ + 1]
                /\ lagged' = Overrun(c)
                /\ reqq' = [reqq EXCEPT ![c] = Tail(@)]
                /\ UNCHANGED apc
    /\ UNCHANGED <<lobbyVars, apath, ter, doc, version, members, file, pc, chan,
                   uid, ws, initreply, clientVars, histVars>>
    /\ UNCHANGED <<sigVars, lastfwd, errseen, inq, fnVars>>

\* RequestKind::Chat: the message is published; `bct_tx.send(..).unwrap()`
\* panics when no receiver is left.
HandleChat(c) ==
    /\ Dequeues(c, "Chat")
    /\ LET req == Head(reqq[c])
           panics == Subscribers(c) = {}
       IN  /\ bct' = Publish(c, [Broadcast("ChatMessage", req.src, <<>>)
                                     EXCEPT !.text = req.text])
           /\ apc' = IF panics THEN [apc EXCEPT ![c] = "panicked"] ELSE apc
           /\ reqq' = [reqq EXCEPT ![c] = IF panics THEN <<>> ELSE Tail(@)]
    /\ npub' = [npub EXCEPT ![c] = @ + 1]
    /\ lagged' = Overrun(c)
    /\ UNCHANGED <<lobbyVars, apath, ter, doc, version, members, file, pc, chan,
                   uid, ws, initreply, clientVars, histVars>>
    /\ UNCHANGED <<sigVars, lastfwd, errseen, inq, mdata, fnVars>>

\* The session that registered its sig_tx under UserID id in channel c.
SessionOf(c, id) == CHOOSE s \in Sessions : chan[s] = c /\ uid[s] = id

\* The session still owns its sig_rx.
SigReceiverAlive(s) == pc[s] \in {"run", "initwait"}

SignalTargetSender(sig) == sig.sender

\* RequestKind::Signal: `member_data.get_mut(&signal.reciever)`
SignalTarget(sig) == sig.reciever

\* `member.sig_tx.send(signal).await` on session t's queue: Err when the
\* receiver is dropped (logged), queued when there is room.
SigDeliver(t, sig) ==
    IF SigReceiverAlive(t) THEN [sigq EXCEPT ![t] = Append(@, sig)] ELSE sigq

\* RequestKind::Signal.  The roster lookup is unwrapped: a receiver that is
\* not in the roster panics the task.  The send awaits room in the
\* receiver's queue of SigQueueCap signals.
HandleSignal(c) ==
    /\ Dequeues(c, "Signal")
    /\ LET req == Head(reqq[c])
           sig == [set |-> TRUE, sender |-> req.src, reciever |-> req.reciever,
                   payload |-> req.payload]
           id == SignalTarget(sig)
       IN  IF id \notin members[c]
           THEN /\ apc' = [apc EXCEPT ![c] = "panicked"]
                /\ reqq' = [reqq EXCEPT ![c] = <<>>]
                /\ UNCHANGED <<sigq, held>>
           ELSE IF SigReceiverAlive(SessionOf(c, id))
                   /\ Len(sigq[SessionOf(c, id)]) >= SigQueueCap
           THEN /\ apc' = [apc EXCEPT ![c] = "sigwait"]
                /\ held' = [held EXCEPT ![c] = sig]
                /\ reqq' = [reqq EXCEPT ![c] = Tail(@)]
                /\ UNCHANGED sigq
           ELSE /\ sigq' = SigDeliver(SessionOf(c, id), sig)
                /\ reqq' = [reqq EXCEPT ![c] = Tail(@)]
                /\ UNCHANGED <<apc, held>>
    /\ UNCHANGED <<lobbyVars, apath, ter, doc, version, members, file,
                   sessVars, clientVars, histVars, wsout, nframes, sigsent,
                   extVars>>

\* The pending `sig_tx.send(signal).await` completes: the receiver made room
\* or dropped its queue.
ResumeSignal(c) ==
    /\ apc[c] = "sigwait"
    /\ LET t == SessionOf(c, SignalTarget(held[c]))
       IN  /\ ~SigReceiverAlive(t) \/ Len(sigq[t]) < SigQueueCap
           /\ sigq' = SigDeliver(t, held[c])
    /\ held' = [held EXCEPT ![c] = NoSignal]
    /\ apc' = [apc EXCEPT ![c] = "run"]
    /\ UNCHANGED <<lobbyVars, apath, ter, reqq, doc, version, members, file,
                   sessVars, clientVars, histVars, wsout, nframes, sigsent,
                   extVars>>

\* The loop's select yields the termination one-shot: the loop breaks, the
\* document is written to the file and the task returns.
ActorTerminate(c) ==
    /\ apc[c] = "run"
    /\ ter[c]
    /\ file' = [file EXCEPT ![apath[c]] = ToMarkdown(doc[c])]
    /\ apc' = [apc EXCEPT ![c] = "exited"]
    /\ UNCHANGED <<lobbyVars, apath, ter, reqq, doc, version, members,
                   sessVars, clientVars, histVars>>
    /\ UNCHANGED <<sigVars, extVars>>

(***************************************************************************)
(* The client session: handle_connection, handle_message, handle_command.  *)
(***************************************************************************)
\* LobbyClient::join_channel: the JoinRequest is queued and the reply awaited.
Connect(s, p) ==
    /\ pc[s] = "new"
    /\ \A r \in Sessions : r < s => pc[r] # "new"
    /\ jrq' = Append(jrq, [path |-> p, sess |-> s])
    /\ pc' = [pc EXCEPT ![s] = "joining"]
    /\ UNCHANGED <<next_id, channels, channel_names, endq, lobby_up, actorVars,
                   file, chan, uid, ws, initreply, bct, clientVars, histVars>>
    /\ UNCHANGED <<sigVars, extVars>>

FolderFrame == [kind |-> "folder", id |-> NoUser, payload |-> "components"]

CloseFrame == [kind |-> "close", id |-> NoUser, payload |-> ""]

\* handle_connection, Err(JoinError::IsFolder(c)): `folder|<c>` is written; a
\* failed write is returned as the task's error.
SessFolder(s) ==
    /\ pc[s] = "isfolder"
    /\ IF ws[s] = "open"
       THEN /\ wsout' = [wsout EXCEPT ![s] = @ \cup {FolderFrame}]
            /\ pc' = [pc EXCEPT ![s] = "folderclose"]
       ELSE /\ pc' = [pc EXCEPT ![s] = "failed"]
            /\ UNCHANGED wsout
    /\ UNCHANGED <<lobbyVars, actorVars, file, chan, uid, ws, initreply, bct,
                   clientVars, histVars, sigq, held, nframes, sigsent,
                   extVars>>

\* handle_connection, Err(JoinError::IsFolder(c)): the close frame is written
\* and the task returns.
SessFolderClose(s) ==
    /\ pc[s] = "folderclose"
    /\ IF ws[s] = "open"
       THEN /\ wsout' = [wsout EXCEPT ![s] = @ \cup {CloseFrame}]
            /\ pc' = [pc EXCEPT ![s] = "rejected"]
       ELSE /\ pc' = [pc EXCEPT ![s] = "failed"]
            /\ UNCHANGED wsout
    /\ UNCHANGED <<lobbyVars, actorVars, file, chan, uid, ws, initreply, bct,
                   clientVars, histVars, sigq, held, nframes, sigsent,
                   extVars>>

\* The client's connection is lost: later writes to the WebSocket fail and
\* the inbound stream ends.
WsBreak(s) ==
    /\ pc[s] \in {"run", "initwait", "isfolder", "folderclose"}
    /\ ws[s] = "open"
    /\ nbreaks < MaxBreaks
    /\ nbreaks' = nbreaks + 1
    /\ ws' = [ws EXCEPT ![s] = "broken"]
    /\ cinit' = [cinit EXCEPT ![s] = FALSE]
    /\ cdoc' = [cdoc EXCEPT ![s] = <<>>]
    /\ cver' = [cver EXCEPT ![s] = 0]
    /\ UNCHANGED <<lobbyVars, actorVars, file, pc, chan, uid, initreply, bct,
                   nsteps, acclog, last, joined, ended, initDeq, closed, loaded>>
    /\ UNCHANGED <<sigVars, extVars>>

\* Command::Init: the request is sent and the session awaits the one-shot
\* (a failed send returns Break, which handle_message discards).
SessInit(s) ==
    /\ pc[s] = "run"
    /\ ws[s] = "open"
    /\ ~cinit[s]
    /\ reqq' = Submit(chan[s], Request("Init", s, 0, <<>>))
    /\ pc' = [pc EXCEPT ![s] = IF ActorAlive(chan[s]) THEN "initwait" ELSE "run"]
    /\ UNCHANGED <<lobbyVars, apc, apath, ter, doc, version, members, file,
                   chan, uid, ws, initreply, bct, clientVars, histVars>>
    /\ UNCHANGED <<sigVars, extVars>>

\* Command::Init, `rx.await` is Ok(state): `init|<id>|<doc>` and `peers|..`
\* are written to the WebSocket.  A failed write leaves handle_message with
\* an error and the main loop breaks without a Close.
SessInitReply(s) ==
    /\ pc[s] = "initwait"
    /\ initreply[s].set
    /\ initreply' = [initreply EXCEPT ![s] = NoReply]
    /\ IF ws[s] = "open"
       THEN /\ pc' = [pc EXCEPT ![s] = "run"]
            /\ cinit' = [cinit EXCEPT ![s] = TRUE]
            /\ cdoc' = [cdoc EXCEPT ![s] = initreply[s].doc]
            /\ cver' = [cver EXCEPT ![s] = initreply[s].version]
            /\ UNCHANGED bct
            /\ UNCHANGED <<lastfwd, lagged>>
       ELSE /\ pc' = [pc EXCEPT ![s] = "aborted"]
            /\ bct' = [bct EXCEPT ![s] = <<>>]
            /\ lastfwd' = [lastfwd EXCEPT ![s] = 0]
            /\ lagged' = [lagged EXCEPT ![s] = FALSE]
            /\ UNCHANGED clientVars
    /\ UNCHANGED <<lobbyVars, actorVars, file, chan, uid, ws, histVars>>
    /\ UNCHANGED <<sigVars, npub, errseen, inq, mdata, fnVars>>

\* Command::Steps with a well-formed payload.
SessSteps(s, v, batch) ==
    /\ pc[s] = "run"
    /\ ws[s] = "open"
    /\ nsteps < MaxSteps
    /\ nsteps' = nsteps + 1
    /\ reqq' = Submit(chan[s], Request("Steps", s, v, batch))
    /\ UNCHANGED <<lobbyVars, apc, apath, ter, doc, version, members, file,
                   sessVars, clientVars, nbreaks, acclog, last, joined, ended,
                   initDeq, closed, loaded>>
    /\ UNCHANGED <<sigVars, extVars>>

\* Message::Close, an error on the inbound stream or its end: submit_close
\* and the main loop breaks.
SessClose(s) ==
    /\ pc[s] = "run"
    /\ reqq' = Submit(chan[s], Request("Close", s, 0, <<>>))
    /\ pc' = [pc EXCEPT ![s] = "done"]
    /\ bct' = [bct EXCEPT ![s] = <<>>]
    /\ cinit' = [cinit EXCEPT ![s] = FALSE]
    /\ cdoc' = [cdoc EXCEPT ![s] = <<>>]
    /\ cver' = [cver EXCEPT ![s] = 0]
    /\ sigq' = [sigq EXCEPT ![s] = <<>>]
    /\ lastfwd' = [lastfwd EXCEPT ![s] = 0]
    /\ lagged' = [lagged EXCEPT ![s] = FALSE]
    /\ UNCHANGED <<lobbyVars, apc, apath, ter, doc, version, members, file,
                   chan, uid, ws, initreply, histVars, held, wsout, nframes,
                   sigsent, npub, errseen, inq, mdata, fnVars>>

\* The client applies a `steps|` frame to its copy of the document.
ClientApply(d, steps) == IF d = Failed THEN Failed ELSE apply_steps(d, steps)

\* The stream of inbound WebSocket messages has one ready.
InboundReady(s) == inq[s] > 0

\* The broadcast stream has an item ready.
BroadcastReady(s) == lagged[s] \/ bct[s] # <<>>

\* The client sends a Pong frame, which waits in the inbound stream.
ClientPong(s) ==
    /\ pc[s] = "run"
    /\ ws[s] = "open"
    /\ inq[s] < MaxInq
    /\ inq' = [inq EXCEPT ![s] = @ + 1]
    /\ UNCHANGED <<lobbyVars, actorVars, file, sessVars, clientVars, histVars,
                   sigVars, ordVars, mdata, fnVars>>

\* The message arm of the main loop, which select polls first:
\* Message::Pong is read and nothing is done.
SessPong(s) ==
    /\ pc[s] = "run"
    /\ InboundReady(s)
    /\ inq' = [inq EXCEPT ![s] = @ - 1]
    /\ UNCHANGED <<lobbyVars, actorVars, file, sessVars, clientVars, histVars,
                   sigVars, ordVars, mdata, fnVars>>

AfterBroadcastErrorBreak == "done"

\* The main loop after "Could not recieve broadcast" or "Could not send
\* broadcast": the break is commented out, the loop goes on.
AfterBroadcastError == "run"

\* The broadcast arm of the main loop.  An overrun receiver yields
\* Err(Lagged) first, which is logged; otherwise the oldest pending
\* broadcast is received and handle_broadcast writes it to the WebSocket,
\* and a failed write is logged.
SessForward(s) ==
    /\ pc[s] = "run"
    /\ ~InboundReady(s)
    /\ BroadcastReady(s)
    /\ IF lagged[s]
       THEN /\ lagged' = [lagged EXCEPT ![s] = FALSE]
            /\ errseen' = [errseen EXCEPT ![s] = TRUE]
            /\ pc' = [pc EXCEPT ![s] = AfterBroadcastError]
            /\ UNCHANGED <<bct, lastfwd, clientVars>>
       ELSE /\ bct' = [bct EXCEPT ![s] = Tail(@)]
            /\ lastfwd' = [lastfwd EXCEPT ![s] = Head(bct[s]).seq]
            /\ UNCHANGED errseen
            /\ pc' = IF ws[s] = "open" THEN pc
                     ELSE [pc EXCEPT ![s] = AfterBroadcastError]
            /\ LET msg == Head(bct[s])
               IN  IF ws[s] = "open" /\ msg.kind = "Steps" /\ cinit[s]
                   THEN /\ cdoc' = [cdoc EXCEPT ![s] = ClientApply(@, msg.steps)]
                        /\ cver' = [cver EXCEPT ![s] = @ + Len(msg.steps)]
                        /\ UNCHANGED cinit
                   ELSE UNCHANGED clientVars
            /\ UNCHANGED lagged
    /\ UNCHANGED <<lobbyVars, actorVars, file, chan, uid, ws, initreply,
                   histVars>>
    /\ UNCHANGED <<sigVars, npub, inq, mdata, fnVars>>

ErrorFrame(err) == [kind |-> "error", id |-> NoUser, payload |-> err]

\* handle_signal: `webrtc|<sender>|<payload>`
WebRTCFrame(sig) == [kind |-> "webrtc", id |-> sig.sender, payload |-> sig.payload]

\* Message::Text: the frame is parsed and handle_command runs on the result;
\* handle_message drops the CommandRes and returns Continue, so only a failed
\* WebSocket write ends the loop from here.
SessText(s, input) ==
    /\ pc[s] = "run"
    /\ ws[s] = "open"
    /\ nframes' = nframes + 1
    /\ LET cmd == ParseCommand(input)
           c == chan[s]
       IN  IF ~cmd.ok
           THEN /\ wsout' = [wsout EXCEPT ![s] = @ \cup {ErrorFrame(cmd.err)}]
                /\ UNCHANGED <<reqq, pc, sigsent>>
           ELSE IF cmd.kind = "init"
           THEN /\ reqq' = Submit(c, Request("Init", s, 0, <<>>))
                /\ pc' = [pc EXCEPT ![s] = IF ActorAlive(c) THEN "initwait" ELSE "run"]
                /\ UNCHANGED <<wsout, sigsent>>
           ELSE IF cmd.kind = "chat"
           THEN /\ reqq' = Submit(c, [Request("Chat", s, 0, <<>>)
                                         EXCEPT !.text = cmd.text])
                /\ UNCHANGED <<pc, wsout, sigsent>>
           ELSE IF cmd.kind = "update"
           THEN /\ reqq' = IF JsonUpdate(cmd.text).ok
                           THEN Submit(c, [Request("Update", s, 0, <<>>)
                                              EXCEPT !.cfg = JsonUpdate(cmd.text).val])
                           ELSE reqq
                /\ UNCHANGED <<pc, wsout, sigsent>>
           ELSE IF cmd.kind = "webrtc"
           THEN LET value == JsonValue(cmd.text)
                IN  /\ reqq' = IF value.ok
                               THEN Submit(c, SignalRequest(s, cmd.num, value.val))
                               ELSE reqq
                    /\ sigsent' = IF value.ok
                                  THEN sigsent \cup {[chan |-> c, sender |-> uid[s],
                                                      reciever |-> cmd.num,
                                                      payload |-> value.val]}
                                  ELSE sigsent
                    /\ UNCHANGED <<pc, wsout>>
           ELSE LET steps == JsonSteps(cmd.text)
                IN  /\ reqq' = IF steps.ok
                               THEN Submit(c, Request("Steps", s, cmd.num, steps.val))
                               ELSE reqq
                    /\ UNCHANGED <<pc, wsout, sigsent>>
    /\ UNCHANGED <<lobbyVars, apc, apath, ter, doc, version, members, file,
                   chan, uid, ws, initreply, bct, clientVars, histVars, sigq, held,
                   extVars>>

\* The signal arm of the main loop, polled after the message arm and the
\* broadcast arm: a signal is received from the private queue and
\* handle_signal writes it to the WebSocket; a failed write is logged and
\* the loop goes on.
SessRecvSignal(s) ==
    /\ pc[s] = "run"
    /\ ~InboundReady(s)
    /\ ~BroadcastReady(s)
    /\ sigq[s] # <<>>
    /\ sigq' = [sigq EXCEPT ![s] = Tail(@)]
    /\ wsout' = IF ws[s] = "open"
                THEN [wsout EXCEPT ![s] = @ \cup {WebRTCFrame(Head(sigq[s]))}]
                ELSE wsout
    /\ UNCHANGED <<lobbyVars, actorVars, file, sessVars, clientVars, histVars,
                   held, nframes, sigsent,
                   extVars>>

Next ==
    \/ JoinVacant
    \/ JoinOccupied
    \/ handle_end
    \/ \E c \in ChannelIDs : ActorStart(c)
    \/ \E c \in ChannelIDs : HandleInit(c)
    \/ \E c \in ChannelIDs : HandleSteps(c)
    \/ \E c \in ChannelIDs : HandleClose(c)
    \/ \E c \in ChannelIDs : ActorTerminate(c)
    \/ \E s \in Sessions, p \in Paths : Connect(s, p)
    \/ \E s \in Sessions : WsBreak(s)
    \/ \E s \in Sessions : SessInit(s)
    \/ \E s \in Sessions : SessInitReply(s)
    \/ \E s \in Sessions, v \in 0..MaxDeclared, b \in Batches : SessSteps(s, v, b)
    \/ \E s \in Sessions : SessClose(s)
    \/ \E s \in Sessions : SessForward(s)

Spec == Init /\ [][Next]_vars

(***************************************************************************)
(* The lobby with clients that connect under several paths and leave       *)
(* again without sending a command.                                        *)
(***************************************************************************)
NextLobby ==
    \/ JoinVacant
    \/ JoinInvalid
    \/ JoinFolder
    \/ JoinOccupied
    \/ handle_end
    \/ \E c \in ChannelIDs : ActorStart(c)
    \/ \E c \in ChannelIDs : HandleClose(c)
    \/ \E c \in ChannelIDs : ActorTerminate(c)
    \/ \E s \in Sessions, p \in AllPaths : Connect(s, p)
    \/ \E s \in Sessions : SessFolder(s)
    \/ \E s \in Sessions : SessFolderClose(s)
    \/ \E s \in Sessions : WsBreak(s)
    \/ \E s \in Sessions : SessClose(s)

SpecLobby == Init /\ [][NextLobby]_vars

(***************************************************************************)
(* Sessions on one path that initialise, send directed signals and frames  *)
(* that do not parse or carry malformed payloads, and leave.               *)
(***************************************************************************)
SigText(s, input) == nframes < MaxFrames /\ SessText(s, input)

NextSig ==
    \/ JoinVacant
    \/ JoinOccupied
    \/ handle_end
    \/ \E c \in ChannelIDs : ActorStart(c)
    \/ \E c \in ChannelIDs : HandleInit(c)
    \/ \E c \in ChannelIDs : HandleSignal(c)
    \/ \E c \in ChannelIDs : HandleClose(c)
    \/ \E c \in ChannelIDs : ActorTerminate(c)
    \/ \E s \in Sessions, p \in Paths : Connect(s, p)
    \/ \E s \in Sessions : SessInit(s)
    \/ \E s \in Sessions : SessInitReply(s)
    \/ \E s \in Sessions, t \in SigFrames : SigText(s, t)
    \/ \E s \in Sessions : SessRecvSignal(s)
    \/ \E s \in Sessions : SessForward(s)
    \/ \E s \in Sessions : SessClose(s)

SpecSig == Init /\ [][NextSig]_vars

(***************************************************************************)
(* A member that keeps sending signals to another member.                  *)
(***************************************************************************)
FloodText(s) == s = 1 /\ nframes < MaxFlood /\ SessText(s, FloodFrame)

NextFlood ==
    \/ JoinVacant
    \/ JoinOccupied
    \/ \E c \in ChannelIDs : ActorStart(c)
    \/ \E c \in ChannelIDs : HandleInit(c)
    \/ \E c \in ChannelIDs : HandleSignal(c)
    \/ \E c \in ChannelIDs : ResumeSignal(c)
    \/ \E s \in Sessions, p \in Paths : Connect(s, p)
    \/ \E s \in Sessions : SessInit(s)
    \/ \E s \in Sessions : SessInitReply(s)
    \/ \E s \in Sessions : FloodText(s)
    \/ \E s \in Sessions : SessForward(s)
    \/ \E s \in Sessions : SessRecvSignal(s)

SpecFlood == Init /\ [][NextFlood]_vars

(***************************************************************************)
(* A member that keeps sending signals to another member whose client      *)
(* sends `init` a second time.                                             *)
(***************************************************************************)
InitFrame == <<"init">>

\* The Init requests of channel c, handled or still in its queue.
InitsSent(c) ==
    initDeq[c] + Cardinality({i \in 1..Len(reqq[c]) : reqq[c][i].kind = "Init"})

\* The client of an initialised member sends `init` again.
ReInitText(s) ==
    /\ pc[s] = "run"
    /\ cinit[s]
    /\ InitsSent(chan[s]) < MaxInits
    /\ SessText(s, InitFrame)

\* A client signals the peer it has learnt of from its `init` reply.
PeerFloodText(s) ==
    /\ pc[s] = "run"
    /\ cinit[s]
    /\ \E t \in Sessions : t # s /\ chan[t] = chan[s] /\ uid[t] = 1 /\ cinit[t]
    /\ nframes < MaxFlood
    /\ SessText(s, FloodFrame)

NextReInit ==
    \/ JoinVacant
    \/ JoinOccupied
    \/ \E c \in ChannelIDs : ActorStart(c)
    \/ \E c \in ChannelIDs : HandleInit(c)
    \/ \E c \in ChannelIDs : HandleSignal(c)
    \/ \E c \in ChannelIDs : ResumeSignal(c)
    \/ \E s \in Sessions, p \in Paths : Connect(s, p)
    \/ \E s \in Sessions : SessInit(s)
    \/ \E s \in Sessions : SessInitReply(s)
    \/ \E s \in Sessions : PeerFloodText(s)
    \/ \E s \in Sessions : ReInitText(s)
    \/ \E s \in Sessions : SessForward(s)
    \/ \E s \in Sessions : SessRecvSignal(s)

SpecReInit == Init /\ [][NextReInit]_vars

(***************************************************************************)
(* A member that sends chat messages faster than it reads the broadcasts.  *)
(***************************************************************************)
ChatFrame == <<"chat", Bar, "hi">>

\* The member, initialised, sends the next chat message once the one before
\* is handled.
LagText(s) ==
    /\ s = 1
    /\ nframes < MaxLag
    /\ pc[s] = "run"
    /\ cinit[s]
    /\ reqq[chan[s]] = <<>>
    /\ SessText(s, ChatFrame)

NextLag ==
    \/ JoinVacant
    \/ \E c \in ChannelIDs : ActorStart(c)
    \/ \E c \in ChannelIDs : HandleInit(c)
    \/ \E c \in ChannelIDs : HandleChat(c)
    \/ \E p \in Paths : Connect(1, p)
    \/ \E s \in Sessions : WsBreak(s)
    \/ \E s \in Sessions : SessInit(s)
    \/ \E s \in Sessions : SessInitReply(s)
    \/ \E s \in Sessions : LagText(s)
    \/ \E s \in Sessions : SessForward(s)

SpecLag == Init /\ [][NextLag]_vars

(***************************************************************************)
(* Members that change their name and audio setting.                       *)
(***************************************************************************)
UpdFrames ==
    { <<"update", Bar, "{n}">>,      \* a new name
      <<"update", Bar, "{a}">>,      \* audio on
      <<"update", Bar, "{na}">>,     \* both
      <<"update", Bar, "{}">> }      \* neither

UpdText(s, input) == nframes < MaxFrames /\ SessText(s, input)

NextUpd ==
    \/ JoinVacant
    \/ JoinOccupied
    \/ \E c \in ChannelIDs : ActorStart(c)
    \/ \E c \in ChannelIDs : HandleInit(c)
    \/ \E c \in ChannelIDs : HandleUpdate(c)
    \/ \E s \in Sessions, p \in Paths : Connect(s, p)
    \/ \E s \in Sessions : SessInit(s)
    \/ \E s \in Sessions : SessInitReply(s)
    \/ \E s \in Sessions, t \in UpdFrames : UpdText(s, t)
    \/ \E s \in Sessions : SessForward(s)

SpecUpd == Init /\ [][NextUpd]_vars

(***************************************************************************)
(* Folder::check_name (src/config/folder.rs) on a configured folder tree:  *)
(* the root has the subfolders a and c, a has the subfolder b.  A path is  *)
(* the sequence of pieces that split('/') yields; a PathBuf is the         *)
(* sequence of its components.                                             *)
(***************************************************************************)
Root == "root"
Folders == {"root", "root/a", "root/a/b", "root/c"}
NoFolder == "nofolder"

\* Folder.sub: the subfolder of f with key seg, if any.
Sub(f, seg) ==
    CASE f = "root" /\ seg = "a" -> "root/a"
      [] f = "root" /\ seg = "c" -> "root/c"
      [] f = "root/a" /\ seg = "b" -> "root/a/b"
      [] OTHER -> NoFolder

\* Folder.save_dir of a folder that sets one.
SaveDirOf(f) == <<"save", f>>

\* The base directory check_name is called with.
BaseDir == <<"base">>

Segments == {"", "a", "b", "c", "x"}

\* The results of split('/'): at least one piece.
SplitPaths == UNION {[1..n -> Segments] : n \in 1..MaxSegments}

Invalid == [kind |-> "Invalid", folder |-> "", dir |-> <<>>, name |-> ""]

PushNothing(base_dir, curr) == base_dir

\* PathBuf::push of one path piece
Push(base_dir, curr) == Append(base_dir, curr)

\* Folder::check_name_iter: iter holds the pieces after curr.
RECURSIVE check_name_iter(_, _, _, _, _)
check_name_iter(dirs, self, iter, curr, base_dir) ==
    LET base == IF self \in dirs THEN SaveDirOf(self) ELSE base_dir
    IN  IF iter # <<>>
        THEN IF Sub(self, curr) # NoFolder
             THEN check_name_iter(dirs, Sub(self, curr), Tail(iter), Head(iter),
                                  Push(base, curr))
             ELSE Invalid
        ELSE IF curr = ""
        THEN [kind |-> "Folder", folder |-> self, dir |-> base, name |-> ""]
        ELSE [kind |-> "File", folder |-> self, dir |-> base, name |-> curr]

check_name_any(dirs, path, base_dir) ==
    IF Len(path) >= 2
    THEN check_name_iter(dirs, Root, SubSeq(path, 3, Len(path)), path[2], base_dir)
    ELSE Invalid

\* Folder::check_name
check_name(dirs, path, base_dir) ==
    IF Head(path) = ""
    THEN IF Len(path) >= 2
         THEN check_name_iter(dirs, Root, SubSeq(path, 3, Len(path)), path[2],
                              base_dir)
         ELSE Invalid
    ELSE Invalid

InitFolder ==
    /\ InitSystem
    /\ cn_dirs \in SUBSET Folders
    /\ cn_path \in SplitPaths
    /\ cn_res = NoResult
    /\ sa_in = <<>>
    /\ sa_out = {}

CheckName ==
    /\ cn_res = NoResult
    /\ cn_res' = check_name(cn_dirs, cn_path, BaseDir)
    /\ UNCHANGED <<lobbyVars, actorVars, file, sessVars, clientVars, histVars,
                   sigVars, ordVars, inq, mdata, cn_dirs, cn_path, sa_in,
                   sa_out>>

NextFolder == CheckName

SpecFolder == InitFolder /\ [][NextFolder]_vars

(***************************************************************************)
(* split_arg and Command::from_str (src/command.rs) on every text of up to *)
(* MaxTokens tokens, sent as a text frame by a client that has joined.     *)
(***************************************************************************)
Tokens == {"chat", Bar, "x"}

SplitInputs == UNION {[1..n -> Tokens] : n \in 0..MaxTokens}

InitSplit ==
    /\ InitSystem
    /\ cn_dirs = {}
    /\ cn_path = <<>>
    /\ cn_res = NoResult
    /\ sa_in \in SplitInputs
    /\ sa_out = {}

\* split_arg on the text
SplitArg ==
    /\ sa_out = {}
    /\ sa_out' = {split_arg(sa_in)}
    /\ UNCHANGED <<lobbyVars, actorVars, file, sessVars, clientVars, histVars,
                   sigVars, ordVars, inq, mdata, cn_dirs, cn_path, cn_res, sa_in>>

\* The client sends the text as its one frame.
SplitText(s) == nframes < 1 /\ SessText(s, sa_in)

NextSplit ==
    \/ SplitArg
    \/ JoinVacant
    \/ \E c \in ChannelIDs : ActorStart(c)
    \/ \E c \in ChannelIDs : HandleChat(c)
    \/ \E p \in Paths : Connect(1, p)
    \/ \E s \in Sessions : SplitText(s)
    \/ \E s \in Sessions : SessForward(s)

SpecSplit == InitSplit /\ [][NextSplit]_vars

(***************************************************************************)
(* Members whose clients keep the inbound stream busy.  Every task runs    *)
(* when it has a step to take; the clients are free to send or not.        *)
(***************************************************************************)
SessLoop(s) == SessPong(s) \/ SessForward(s)

NextFair ==
    \/ JoinVacant
    \/ JoinOccupied
    \/ \E c \in ChannelIDs : ActorStart(c)
    \/ \E c \in ChannelIDs : HandleInit(c)
    \/ \E s \in Sessions, p \in Paths : Connect(s, p)
    \/ \E s \in Sessions : SessInit(s)
    \/ \E s \in Sessions : SessInitReply(s)
    \/ \E s \in Sessions : ClientPong(s)
    \/ \E s \in Sessions : SessLoop(s)

SpecFair ==
    /\ Init
    /\ [][NextFair]_vars
    /\ WF_vars(JoinVacant \/ JoinOccupied)
    /\ \A c \in ChannelIDs : WF_vars(ActorStart(c) \/ HandleInit(c))
    /\ \A s \in Sessions : WF_vars(SessInitReply(s))
    /\ \A s \in Sessions : WF_vars(SessLoop(s))

(***************************************************************************)
(* Properties.                                                             *)
(***************************************************************************)
RECURSIVE SumLen(_)
SumLen(log) == IF log = <<>> THEN 0 ELSE log[1].len + SumLen(Tail(log))

\* Every step of the batch applies, each to the result of the one before.
RECURSIVE AllApply(_, _)
AllApply(d, steps) ==
    \/ steps = <<>>
    \/ /\ StepApply(Head(steps), d) # Failed
       /\ AllApply(StepApply(Head(steps), d), Tail(steps))

\* The batch handled last met the channel at its declared version, is not
\* empty and applies.
Applicable(l) == l.declared = l.preVer /\ l.steps # <<>> /\ AllApply(l.preDoc, l.steps)

Dropped(l) == l.postDoc = l.preDoc /\ l.postVer = l.preVer /\ ~l.published

SessionsOf(c) == {s \in Sessions : chan[s] = c}

\* C1: a client that starts from the document of its `init|` reply and
\* applies every `steps|` frame forwarded to it afterwards holds the channel's
\* document and version whenever the request queue and its subscription are
\* drained.
C1_Convergence ==
    \A s \in Sessions :
        ( /\ pc[s] = "run" /\ cinit[s] /\ ws[s] = "open"
          /\ apc[chan[s]] = "run"
          /\ reqq[chan[s]] = <<>>
          /\ bct[s] = <<>> )
        => (cdoc[s] = doc[chan[s]] /\ cver[s] = version[chan[s]])

\* C2: the version is the sum of the lengths of the accepted batches; a
\* Steps request changes it by the batch's length when the batch is accepted
\* (declared version current, not empty, every step applies) and by nothing
\* otherwise, and no other step of the system changes it.
C2_VersionIsSumOfAccepted ==
    /\ [](\A c \in ChannelIDs :
            /\ version[c] = SumLen(acclog[c])
            /\ last[c].set =>
                 last[c].postVer = last[c].preVer +
                     (IF Applicable(last[c]) THEN Len(last[c].steps) ELSE 0))
    /\ [][\A c \in ChannelIDs :
            version'[c] # version[c] =>
                /\ Dequeues(c, "Steps")
                /\ Accepts(c, Head(reqq[c]))
                /\ version'[c] = version[c] + Len(Head(reqq[c]).steps)
                /\ doc'[c] = apply_steps(doc[c], Head(reqq[c]).steps)]_vars

C2_Witness ==
    \E c \in ChannelIDs :
        /\ last[c].set /\ Len(last[c].steps) = 2
        /\ last[c].postVer = last[c].preVer + 2
        /\ version[c] = 2

\* C3: a Steps request whose declared version is not the channel's current
\* version leaves document and version as they were and publishes nothing.
C3_StaleNeverReflected ==
    \A c \in ChannelIDs :
        (last[c].set /\ last[c].declared # last[c].preVer) => Dropped(last[c])

C3_Witness ==
    \E c \in ChannelIDs :
        /\ last[c].set
        /\ last[c].declared < last[c].preVer
        /\ AllApply(last[c].preDoc, last[c].steps) /\ last[c].steps # <<>>

\* C4: a batch with a matching declared version of which some step fails to
\* apply leaves document and version as they were and publishes nothing.
C4_AllOrNothing ==
    \A c \in ChannelIDs :
        ( /\ last[c].set
          /\ last[c].declared = last[c].preVer
          /\ ~AllApply(last[c].preDoc, last[c].steps) )
        => Dropped(last[c])

C4_Witness ==
    \E c \in ChannelIDs :
        /\ last[c].set
        /\ last[c].declared = last[c].preVer
        /\ last[c].steps = <<InsA, InsBad>>
        /\ StepApply(InsA, last[c].preDoc) # Failed

\* C5: no two accepted batches declare the same base version; a batch that
\* meets the channel at its declared version and applies is accepted, and a
\* batch declaring a version at which a batch was accepted before is dropped.
C5_OneBatchPerVersion ==
    \A c \in ChannelIDs :
        LET log == acclog[c]
            l == last[c]
            own == IF l.set /\ l.postVer # l.preVer THEN 1 ELSE 0
        IN  /\ \A i, j \in 1..Len(log) : i < j => log[i].declared # log[j].declared
            /\ \A i \in 1..Len(log) : log[i].declared = log[i].base
            /\ (l.set /\ Applicable(l)) =>
                   /\ l.postVer = l.preVer + Len(l.steps)
                   /\ log # <<>> /\ log[Len(log)].declared = l.declared
            /\ (l.set /\ \E i \in 1..(Len(log) - own) : log[i].declared = l.declared)
                   => Dropped(l)

C5_Witness ==
    \E c \in ChannelIDs :
        /\ Len(acclog[c]) = 1
        /\ last[c].set
        /\ last[c].declared = acclog[c][1].declared
        /\ last[c].src # NoUser
        /\ last[c].steps # <<>>
        /\ Dropped(last[c])

Diff(c) == joined[c] - ended[c]

\* C6: a live entry's reference count is the number of joins granted to the
\* channel minus the number of End notifications the lobby handled for it;
\* the entry is removed, and the termination one-shot fired, in exactly the
\* steps in which that difference reaches zero.
C6_RefCount ==
    [][\A c \in ChannelIDs :
        LET reachesZero == Diff(c) > 0 /\ joined'[c] - ended'[c] = 0
        IN  /\ channels'[c].live => channels'[c].count = joined'[c] - ended'[c]
            /\ (channels[c].live /\ ~channels'[c].live) <=> reachesZero
            /\ (~ter[c] /\ ter'[c]) <=> reachesZero]_vars

C6_Witness ==
    \E c \in ChannelIDs : ter[c] /\ ~channels[c].live /\ joined[c] = 2 /\ ended[c] = 2

RefCount(c) == IF channels[c].live THEN channels[c].count ELSE 0

CloseDeq(c) == Cardinality({s \in closed : chan[s] = c})

\* C7 as stated: the reference count is the number of Init requests the
\* actor dequeued minus the number of Close requests it dequeued, and the
\* entry exists iff that is positive.
C7_InitMinusClose ==
    \A c \in ChannelIDs :
        /\ RefCount(c) = initDeq[c] - CloseDeq(c)
        /\ channels[c].live <=> initDeq[c] - CloseDeq(c) > 0

\* C7 as amended: the reference count is the number of join requests the
\* lobby granted for the channel minus the number of End notifications it
\* dequeued for it, and the entry exists iff that is positive.
C7_JoinsMinusEnds ==
    \A c \in ChannelIDs :
        /\ RefCount(c) = Diff(c)
        /\ channels[c].live <=> Diff(c) > 0

C7_Witness ==
    \E c \in ChannelIDs :
        channels[c].live /\ channels[c].count = 1 /\ joined[c] = 2 /\ ended[c] = 1

\* C8: once the termination one-shot of a channel is fired, every session
\* granted a join to it has submitted its Close and left, each Close has been
\* dequeued by the actor, and the request queue is empty.
C8_TerminateOnlyWhenEmpty ==
    \A c \in ChannelIDs :
        ter[c] =>
            /\ \A s \in SessionsOf(c) : pc[s] = "done" /\ s \in closed
            /\ reqq[c] = <<>>
            /\ members[c] = {}

C8_Witness ==
    \E c \in ChannelIDs : ter[c] /\ apc[c] = "run" /\ Cardinality(SessionsOf(c)) = 2

\* Nothing is pending for channel c: its sessions have ended, no join is
\* under way, its request queue and the end queue are empty and the actor
\* has no step to take.
Quiet(c) ==
    /\ joined[c] > 0
    /\ \A s \in SessionsOf(c) : pc[s] \in {"done", "aborted"}
    /\ \A s \in Sessions : pc[s] # "joining"
    /\ reqq[c] = <<>>
    /\ endq = <<>>
    /\ apc[c] # "spawned"
    /\ ~(apc[c] = "run" /\ ter[c])

\* C9: when every member of a channel has left and nothing is pending any
\* more, the lobby has removed the entry and fired termination, and the actor
\* has exited with its document written to its file.
C9_LastLeaveTerminates ==
    \A c \in ChannelIDs :
        Quiet(c) =>
            /\ ~channels[c].live /\ ter[c]
            /\ apc[c] = "exited"

\* The channel that held c's path before c was created.
HasPredecessor(c) == c > 0 /\ apath[c - 1] = apath[c] /\ ter[c - 1]

\* C10: an actor created for a path after the lobby removed the previous
\* entry starts from the document the previous actor held, at version 0.
C10_ReopenReloads ==
    \A c \in ChannelIDs :
        (apc[c] \in {"run", "exited", "panicked"} /\ HasPredecessor(c)) =>
            loaded[c] = doc[c - 1]

\* The actor of channel c may still open, read or write its file.
MayTouchFile(c) == apc[c] \in {"spawned", "run", "sigwait"}

\* C11: no two channel actors that may still read or write the same file
\* path are alive at the same time.
C11_OneActorPerFile ==
    \A c1, c2 \in ChannelIDs :
        (c1 # c2 /\ apath[c1] = apath[c2] /\ MayTouchFile(c1)) => ~MayTouchFile(c2)

LiveFor(p) == {c \in ChannelIDs : channels[c].live /\ channels[c].path = p}

\* C12: a path has at most one live channel, which is the one the registry
\* names and whose actor was spawned; a join handled while the path has a
\* live channel allocates no channel, spawns no actor and attaches the
\* requester to that channel, and a join handled while it has none spawns
\* exactly one.
C12_OneActorPerLivePath ==
    /\ [](\A p \in AllPaths :
            /\ Cardinality(LiveFor(p)) <= 1
            /\ \A c \in LiveFor(p) :
                   channel_names[p] = c /\ apc[c] # "none" /\ apath[c] = p
            /\ channel_names[p] # NoChannel => LiveFor(p) = {channel_names[p]})
    /\ [][\A s \in Sessions :
            (pc[s] = "joining" /\ pc'[s] = "run") =>
                LET p == Head(jrq).path
                IN  IF LiveFor(p) # {}
                    THEN /\ chan'[s] \in LiveFor(p)
                         /\ next_id' = next_id /\ apc' = apc
                         /\ reqq' = reqq
                    ELSE /\ chan'[s] = next_id /\ next_id' = next_id + 1
                         /\ apc[chan'[s]] = "none"
                         /\ \A c \in ChannelIDs \ {chan'[s]} : apc'[c] = apc[c]]_vars

C12_Witness ==
    \E s1, s2 \in Sessions :
        /\ s1 # s2 /\ pc[s1] = "run" /\ pc[s2] = "run"
        /\ chan[s1] = chan[s2] /\ next_id = 1
        /\ channels[chan[s1]].count = 2

\* The file a client path names: the last segment in lower case, hyphen
\* separated, with the extension .md.
Slug(p) ==
    CASE p = <<"", "pad">> -> "pad.md"
      [] p = <<"", "Pad">> -> "pad.md"
      [] OTHER -> "none"

\* C13: live channels whose client paths slugify to the same file are one
\* channel.
C13_SlugSharesChannel ==
    \A c1, c2 \in ChannelIDs :
        ( /\ channels[c1].live /\ channels[c2].live
          /\ Slug(channels[c1].path) = Slug(channels[c2].path) )
        => c1 = c2

\* C14: the UserIDs granted for a channel are 0, 1, 2, .. in the order of
\* the joins, so no two sessions of a channel, present or gone, share one,
\* and each channel starts at 0.
C14_UserIDsUnique ==
    /\ [](\A c \in ChannelIDs :
            /\ Cardinality(SessionsOf(c)) = joined[c]
            /\ {uid[s] : s \in SessionsOf(c)} = 0..(joined[c] - 1))
    /\ [][\A s \in Sessions :
            (pc[s] = "joining" /\ pc'[s] = "run") =>
                /\ uid'[s] = joined[chan'[s]]
                /\ \A r \in Sessions :
                       (r # s /\ chan[r] = chan'[s]) => uid[r] < uid'[s]]_vars

C14_Witness ==
    \E s1, s2 \in Sessions :
        /\ chan[s1] = chan[s2] /\ chan[s1] # NoChannel
        /\ s1 \in closed /\ pc[s2] = "run"
        /\ uid[s1] = 0 /\ uid[s2] = 1

\* C15: a session that was granted a join and whose main loop has ended has
\* submitted its Close request.
C15_OrderlyDeparture ==
    \A s \in Sessions :
        (chan[s] # NoChannel /\ pc[s] \notin {"run", "initwait"}) => pc[s] = "done"

\* C16: when the actor takes a Signal whose receiver is not in the roster,
\* the signal is dropped: the actor keeps running with the rest of its
\* queue, and roster, document, signal queues and outputs are unchanged.
C16_UnknownReceiverDropped ==
    [][\A c \in ChannelIDs :
        ( /\ Dequeues(c, "Signal")
          /\ Head(reqq[c]).reciever \notin members[c]
          /\ Len(reqq'[c]) < Len(reqq[c]) )
        => ( /\ apc'[c] = "run"
             /\ reqq'[c] = Tail(reqq[c])
             /\ UNCHANGED <<members, doc, version, sigq, wsout, bct>> )]_vars

\* C17: the channel actor is never suspended on the enqueue of a signal.
C17_SignalNeverBlocks ==
    \A c \in ChannelIDs : apc[c] # "sigwait" /\ ~held[c].set

\* C18: a webrtc frame written to a session answers a webrtc command sent
\* in its channel to that session's UserID and names the sender of that
\* command; a queued signal sits in its receiver's queue only; no broadcast
\* carries a signal.
C18_SignalOnlyToReceiver ==
    /\ \A s \in Sessions : \A f \in wsout[s] :
           f.kind = "webrtc" =>
               \E g \in sigsent :
                   /\ g.chan = chan[s] /\ g.reciever = uid[s]
                   /\ g.sender = f.id /\ g.payload = f.payload
    /\ \A s \in Sessions : \A i \in 1..Len(sigq[s]) : sigq[s][i].reciever = uid[s]
    /\ \A s \in Sessions : \A i \in 1..Len(bct[s]) :
           bct[s][i].kind \in {"NewUser", "UserLeft", "Steps"}

C18_Witness ==
    \E a, b \in Sessions :
        /\ a # b /\ chan[a] = chan[b] /\ pc[a] = "run" /\ pc[b] = "run"
        /\ [kind |-> "webrtc", id |-> uid[a], payload |-> "{sdp}"] \in wsout[b]
        /\ wsout[a] = {}
        /\ sigq[a] = <<>> /\ sigq[b] = <<>>

Verb(t) == t[1]

NumBars(t) == Cardinality({i \in 1..Len(t) : t[i] = Bar})

\* The frame has an unknown verb, lacks an argument, or its version or
\* receiver field is not a number.
Unparsable(t) ==
    \/ Verb(t) \notin {"init", "chat", "steps", "update", "webrtc"}
    \/ Verb(t) \in {"chat", "update"} /\ NumBars(t) < 1
    \/ Verb(t) \in {"steps", "webrtc"} /\ NumBars(t) < 2
    \/ Verb(t) \in {"steps", "webrtc"} /\ NumBars(t) >= 2 /\ t[3] \notin Numerals

MalformedPayload(t) ==
    /\ ~Unparsable(t)
    /\ Verb(t) \in {"update", "webrtc", "steps"}
    /\ t[Len(t)] = "{"

\* C20: handling an update, webrtc or steps frame whose payload is not JSON
\* submits no request and ends the session's main loop.
C20_MalformedPayloadEndsSession ==
    [][\A s \in Sessions : \A t \in SigFrames :
        (MalformedPayload(t) /\ SessText(s, t)) =>
            (reqq' = reqq /\ pc'[s] # "run")]_vars

\* The path starts with '/', its directory names are valid and its final
\* segment is empty.
IsFolderPath(p) ==
    /\ Len(p) >= 2 /\ p[1] = "" /\ p[Len(p)] = ""
    /\ \A i \in 2..(Len(p) - 1) : p[i] \in AlnumDash

RequestsOf(s) ==
    {c \in ChannelIDs : \E i \in 1..Len(reqq[c]) : reqq[c][i].sess = s}

\* C21: a join for a folder path is answered with IsFolder and changes
\* nothing in the lobby; the session then writes the folder frame, then the
\* close frame, and has returned: it has no channel, never has a request in
\* a request queue and writes nothing else (a write fails only on a lost
\* connection, and the task returns then too).
C21_FolderRejected ==
    /\ [](\A s \in Sessions :
            pc[s] \in {"isfolder", "folderclose", "rejected"} =>
                /\ chan[s] = NoChannel /\ uid[s] = NoUser
                /\ RequestsOf(s) = {}
                /\ wsout[s]  = CASE pc[s] = "isfolder" -> {}
                                 [] pc[s] = "folderclose" -> {FolderFrame}
                                 [] pc[s] = "rejected" -> {FolderFrame, CloseFrame})
    /\ [][\A s \in Sessions :
            /\ ( /\ pc[s] = "joining" /\ pc'[s] # "joining"
                 /\ IsFolderPath(Head(jrq).path) )
               => ( /\ pc'[s] = "isfolder"
                    /\ UNCHANGED <<next_id, channels, channel_names, apc, reqq>> )
            /\ (pc[s] = "isfolder" /\ ws[s] = "open") =>
                   pc'[s] \in {"isfolder", "folderclose"}
            /\ (pc[s] = "folderclose" /\ ws[s] = "open") =>
                   pc'[s] \in {"folderclose", "rejected"}
            /\ (pc[s] \in {"isfolder", "folderclose"} /\ ws[s] # "open") =>
                   (pc'[s] \in {pc[s], "failed"} /\ wsout'[s] = wsout[s])
            /\ pc[s] = "rejected" => pc'[s] = "rejected"]_vars

C21_Witness ==
    \E s \in Sessions :
        /\ pc[s] = "rejected" /\ wsout[s] = {FolderFrame, CloseFrame}
        /\ next_id = 0 /\ jrq = <<>>
        /\ \A c \in ChannelIDs : apc[c] = "none"

\* The End notifications for channel c that the lobby has not yet dequeued.
EndsPending(c) == Cardinality({i \in 1..Len(endq) : endq[i] = c})

\* C25: the lobby loop never exits on a missing entry or a reference count
\* below 1: every End notification in its queue is covered by a reference
\* the channel's registry entry still counts.
C25_LobbyNeverFatal ==
    /\ lobby_up
    /\ \A c \in ChannelIDs :
           /\ EndsPending(c) <= RefCount(c)
           /\ channels[c].live => channels[c].count >= 1

C25_Witness ==
    \E c \in ChannelIDs :
        /\ ended[c] = 2 /\ ~channels[c].live /\ ter[c]
        /\ lobby_up /\ endq = <<>>

Increasing(q) == \A i, j \in 1..Len(q) : i < j => q[i].seq < q[j].seq

\* C22: a session forwards the broadcasts of its channel in the order of
\* their emission: the numbers of the broadcasts it forwards only grow, and
\* the ones it has pending are in emission order and later than the last
\* one forwarded.
C22_BroadcastOrder ==
    /\ [](\A s \in Sessions :
            /\ Increasing(bct[s])
            /\ \A i \in 1..Len(bct[s]) :
                   /\ bct[s][i].seq > lastfwd[s]
                   /\ bct[s][i].seq <= npub[chan[s]])
    /\ [][\A s \in Sessions :
            (pc'[s] = "run" /\ lastfwd'[s] # lastfwd[s]) =>
                /\ lastfwd'[s] > lastfwd[s]
                /\ lastfwd'[s] = Head(bct[s]).seq
                /\ bct'[s] = Tail(bct[s])]_vars

C22_Witness ==
    \E s \in Sessions :
        /\ pc[s] = "run" /\ ws[s] = "open"
        /\ lastfwd[s] = 3 /\ bct[s] = <<>>
        /\ \E c \in ChannelIDs : acclog[c] # <<>>

\* A step in which session s receives the overrun error of its broadcast
\* receiver, or fails to write a broadcast to its WebSocket.
BroadcastError(s) ==
    /\ pc[s] = "run"
    /\ \/ lagged[s] /\ ~lagged'[s]
       \/ ws[s] # "open" /\ bct[s] # <<>> /\ bct'[s] = Tail(bct[s])

\* C23: neither an overrun of the broadcast receiver nor a failed write of a
\* broadcast ends the session: it stays in its main loop, submits nothing,
\* and what is pending after the error stays pending for it to forward.
C23_BroadcastErrorsSurvived ==
    [][\A s \in Sessions :
          BroadcastError(s) =>
              /\ pc'[s] = "run"
              /\ reqq' = reqq
              /\ lagged[s] => bct'[s] = bct[s]]_vars

C23_Witness ==
    \E s \in Sessions :
        /\ pc[s] = "run" /\ ws[s] = "open"
        /\ errseen[s] /\ ~lagged[s]
        /\ npub[chan[s]] > BroadcastCap
        /\ lastfwd[s] = npub[chan[s]]

\* Session s handles a well-formed command frame whose request cannot be
\* submitted because the actor of its channel has stopped on a fatal error.
SubmitFails(s) ==
    /\ pc[s] = "run"
    /\ apc[chan[s]] = "panicked"
    /\ \E t \in SigFrames :
           ~Unparsable(t) /\ ~MalformedPayload(t) /\ SessText(s, t)

\* C24: a session attached to a channel whose actor stopped on a fatal error
\* terminates: when its request cannot be submitted any more, it leaves its
\* main loop.
C24_ActorFailureEndsSessions ==
    [][\A s \in Sessions : SubmitFails(s) => pc'[s] # "run"]_vars

\* C26: a broadcast pending for a session in its main loop is eventually
\* forwarded, whatever its client sends.
C26_PendingForwarded ==
    \A s \in Sessions :
        (pc[s] = "run" /\ bct[s] # <<>>) ~> (pc[s] # "run" \/ bct[s] = <<>>)

\* The folders a walk along the pieces before the last one passes: the root,
\* then for each piece the subfolder it names in the folder reached so far.
Walks(path) ==
    {w \in UNION {[1..n -> Folders] : n \in {Len(path) - 1}} :
        /\ w[1] = Root
        /\ \A i \in 2..(Len(path) - 1) : w[i] = Sub(w[i - 1], path[i])}

StartsWithSlash(path) == Len(path) >= 2 /\ path[1] = ""

Classify(path) ==
    IF ~StartsWithSlash(path) \/ Walks(path) = {} THEN "Invalid"
    ELSE IF path[Len(path)] = "" THEN "Folder"
    ELSE "File"

\* C27: check_name answers Invalid for a path that does not start with '/'
\* or has a piece before the last that is no subfolder of the folder
\* reached so far, else Folder when the last piece is empty, else File with
\* the last piece as name; the folder returned is the one the walk ends in.
C27_Classification ==
    cn_res # NoResult =>
        /\ cn_res.kind = Classify(cn_path)
        /\ cn_res.kind = "File" => cn_res.name = cn_path[Len(cn_path)]
        /\ cn_res.kind # "Invalid" =>
               \A w \in Walks(cn_path) : cn_res.folder = w[Len(w)]

C27_Witness ==
    /\ cn_res.kind = "File" /\ cn_res.folder = "root/a/b" /\ cn_res.name = "x"
    /\ cn_path = <<"", "a", "b", "x">>

\* The last folder of walk w that sets save_dir (0 when none does).
LastSet(w, dirs) ==
    IF \E i \in 1..Len(w) : w[i] \in dirs
    THEN CHOOSE i \in 1..Len(w) :
             w[i] \in dirs /\ \A j \in (i + 1)..Len(w) : w[j] \notin dirs
    ELSE 0

\* The save_dir in force where walk w ends, taken over as it is.
InheritedDir(w, dirs) ==
    IF LastSet(w, dirs) = 0 THEN BaseDir ELSE SaveDirOf(w[LastSet(w, dirs)])

\* The keys of the subfolders walk w enters after its k-th folder.
EnteredAfter(path, w, k) ==
    [i \in 1..(Len(w) - (IF k = 0 THEN 1 ELSE k)) |->
        path[(IF k = 0 THEN 1 ELSE k) + i]]

\* C28 as stated: the directory returned is the save_dir of the folder the
\* walk ends in or, if it sets none, that of its nearest ancestor that sets
\* one (else the initial base directory), unchanged.
C28_DirInherited ==
    cn_res.kind \in {"File", "Folder"} =>
        \A w \in Walks(cn_path) : cn_res.dir = InheritedDir(w, cn_dirs)

\* C28, amended: the directory returned is that save_dir (or the initial
\* base directory) followed by the keys of the subfolders entered since.
C28_DirAccumulated ==
    cn_res.kind \in {"File", "Folder"} =>
        \A w \in Walks(cn_path) :
            cn_res.dir = InheritedDir(w, cn_dirs)
                             \o EnteredAfter(cn_path, w, LastSet(w, cn_dirs))

C28_Witness ==
    /\ cn_path = <<"", "a", "b", "x">> /\ cn_dirs = {"root/a"}
    /\ cn_res.kind = "File"
    /\ cn_res.dir = <<"save", "root/a", "b">>

\* C29: the step that handles an Init adds the user to the roster; when the
\* reply is delivered it carries the document and a roster with the user in
\* it, and NewUser(id) is published to every subscriber, the initiating
\* session among them; when it is not delivered nothing is published.
C29_InitReplyThenNewUser ==
    [][\A c \in ChannelIDs :
          initDeq'[c] # initDeq[c] =>
              LET req == Head(reqq[c])
              IN  /\ members'[c] = members[c] \cup {req.src}
                  /\ IF initreply'[req.sess].set
                     THEN /\ initreply'[req.sess].doc = doc[c]
                          /\ initreply'[req.sess].version = version[c]
                          /\ req.src \in initreply'[req.sess].peers
                          /\ initreply'[req.sess].peers = members'[c]
                          /\ req.sess \in Subscribers(c)
                          /\ \A t \in Subscribers(c) :
                                 /\ Len(bct'[t]) = Len(bct[t]) + 1
                                 /\ SubSeq(bct'[t], 1, Len(bct[t])) = bct[t]
                                 /\ bct'[t][Len(bct'[t])].kind = "NewUser"
                                 /\ bct'[t][Len(bct'[t])].id = req.src
                     ELSE bct' = bct]_vars

C29_Witness ==
    \E s \in Sessions :
        /\ pc[s] = "initwait" /\ initreply[s].set
        /\ uid[s] \in initreply[s].peers
        /\ Cardinality(initreply[s].peers) = 2
        /\ bct[s] # <<>>
        /\ bct[s][Len(bct[s])].kind = "NewUser"
        /\ bct[s][Len(bct[s])].id = uid[s]

\* The actor of channel c handles an Update request of a roster member.
MemberUpdate(c) ==
    /\ Dequeues(c, "Update")
    /\ Head(reqq[c]).src \in members[c]
    /\ reqq'[c] = Tail(reqq[c])

\* C30: an Update of a roster member sets the name and the audio flag of
\* that member's record to the supplied values and leaves an unsupplied
\* field, the other records, the roster, the document and the version as
\* they were; every subscriber gets exactly one Update(id, cfg) with the
\* fields as supplied.
C30_UpdateOwnFields ==
    [][\A c \in ChannelIDs :
          MemberUpdate(c) =>
              LET req == Head(reqq[c])
                  old == mdata[c][req.src]
                  new == mdata'[c][req.src]
              IN  /\ \/ req.cfg.name = {} /\ new.name = old.name
                     \/ req.cfg.name = {new.name}
                  /\ \/ req.cfg.audio = {} /\ new.audio = old.audio
                     \/ req.cfg.audio = {new.audio}
                  /\ \A u \in UserIDs \ {req.src} : mdata'[c][u] = mdata[c][u]
                  /\ \A d \in ChannelIDs \ {c} : mdata'[d] = mdata[d]
                  /\ members' = members /\ doc' = doc /\ version' = version
                  /\ \A t \in Sessions \ Subscribers(c) : bct'[t] = bct[t]
                  /\ \A t \in Subscribers(c) :
                         /\ Len(bct'[t]) = Len(bct[t]) + 1
                         /\ SubSeq(bct'[t], 1, Len(bct[t])) = bct[t]
                         /\ bct'[t][Len(bct'[t])].kind = "Update"
                         /\ bct'[t][Len(bct'[t])].id = req.src
                         /\ bct'[t][Len(bct'[t])].cfg = req.cfg]_vars

C30_Witness ==
    \E c \in ChannelIDs : \E s, t \in Sessions :
        /\ s # t /\ chan[s] = c /\ chan[t] = c
        /\ members[c] = {uid[s], uid[t]}
        /\ mdata[c][uid[s]] = [name |-> DefaultName(uid[s]), audio |-> TRUE]
        /\ mdata[c][uid[t]] = NewData(uid[t])
        /\ bct[t] # <<>>
        /\ bct[t][Len(bct[t])].kind = "Update"
        /\ bct[t][Len(bct[t])].cfg = [name |-> {}, audio |-> {TRUE}]

\* C31: when the actor takes an Update whose sender is not in the roster,
\* the request is dropped: the actor keeps running with the rest of its
\* queue, and the roster, the member records and the broadcasts pending for
\* the sessions are unchanged.
C31_NonMemberUpdateDropped ==
    [][\A c \in ChannelIDs :
        ( /\ Dequeues(c, "Update")
          /\ Head(reqq[c]).src \notin members[c]
          /\ Len(reqq'[c]) < Len(reqq[c]) )
        => ( /\ apc'[c] = "run"
             /\ reqq'[c] = Tail(reqq[c])
             /\ UNCHANGED <<members, mdata, bct, npub>> )]_vars

\* The actor of channel c handles a Close request.
ClosesOne(c) == Dequeues(c, "Close") /\ Len(reqq'[c]) < Len(reqq[c])

\* C32: every Close the actor dequeues removes its sender from the roster,
\* gives each remaining subscriber one UserLeft(id) and puts exactly one End
\* notification with the channel's ID on the lobby's queue, with or without
\* a subscriber left; no other step queues an End, so the Ends sent for a
\* channel are as many as the Closes its actor dequeued.
C32_EveryCloseEnds ==
    /\ [](\A c \in ChannelIDs : CloseDeq(c) = ended[c] + EndsPending(c))
    /\ [][\A c \in ChannelIDs :
            /\ ClosesOne(c) =>
                 LET req == Head(reqq[c])
                 IN  /\ members'[c] = members[c] \ {req.src}
                     /\ mdata'[c][req.src] = NoData
                     /\ endq' = Append(endq, c)
                     /\ apc'[c] = "run"
                     /\ \A t \in Sessions \ Subscribers(c) : bct'[t] = bct[t]
                     /\ \A t \in Subscribers(c) :
                            /\ Len(bct'[t]) = Len(bct[t]) + 1
                            /\ SubSeq(bct'[t], 1, Len(bct[t])) = bct[t]
                            /\ bct'[t][Len(bct'[t])].kind = "UserLeft"
                            /\ bct'[t][Len(bct'[t])].id = req.src
            /\ Len(endq') > Len(endq) => \E d \in ChannelIDs : ClosesOne(d)]_vars

\* Two members have left: the first Close reached the other member as
\* UserLeft, the second found no subscriber, and both Ends are queued.
C32_Witness ==
    \E c \in ChannelIDs :
        /\ CloseDeq(c) = 2 /\ members[c] = {} /\ initDeq[c] = 2
        /\ endq = <<c, c>>
        /\ Subscribers(c) = {}

\* The path does not start with '/', or one of its directory names is empty
\* or has a character that is no ASCII letter, digit or '-'.
IsInvalidPath(p) ==
    \/ Len(p) < 2 \/ p[1] # ""
    \/ \E i \in 2..(Len(p) - 1) : p[i] \notin {"pad", "Pad", "room"}

\* The lobby handles the join request at the head of its queue.
JoinHandled == jrq # <<>> /\ jrq' = Tail(jrq)

\* C33: a join for an invalid path is answered with Err(InvalidPath) and one
\* for a folder path with Err(IsFolder); either rejection allocates no
\* channel ID, spawns no actor, inserts nothing in the registry or the path
\* map, changes no reference count or user counter, and grants the
\* requester no channel.
C33_RejectedJoinNoEffect ==
    [][(JoinHandled /\ (IsInvalidPath(Head(jrq).path) \/ IsFolderPath(Head(jrq).path)))
        => LET s == Head(jrq).sess
           IN  /\ pc'[s] = IF IsInvalidPath(Head(jrq).path) THEN "failed" ELSE "isfolder"
               /\ chan'[s] = NoChannel /\ uid'[s] = NoUser
               /\ UNCHANGED <<next_id, channels, channel_names, endq, lobby_up>>
               /\ UNCHANGED <<actorVars, joined, file>>
               /\ \A r \in Sessions \ {s} : pc'[r] = pc[r]]_vars

\* An invalid path was rejected while another path has a live channel with
\* one member: that channel's entry is as the join that created it left it.
C33_Witness ==
    \E s, r \in Sessions : \E c \in ChannelIDs :
        /\ pc[s] = "failed" /\ chan[s] = NoChannel
        /\ pc[r] = "run" /\ chan[r] = c
        /\ channels[c] = [live |-> TRUE, count |-> 1, next_uid |-> 1, path |-> PadPath]
        /\ next_id = 1 /\ jrq = <<>>
        /\ ws[s] = "open"

\* The Steps requests a client can send.
StepsRequests ==
    {[version |-> v, steps |-> b] : v \in 0..MaxDeclared, b \in Batches}

\* The actor of channel c handles a Steps request with an empty batch that
\* declares the current version.
EmptyBatch(c) ==
    /\ Dequeues(c, "Steps")
    /\ Head(reqq[c]).steps = <<>>
    /\ Head(reqq[c]).version = version[c]
    /\ Len(reqq'[c]) < Len(reqq[c])

\* C34: a Steps request with an empty batch and the current version changes
\* neither document nor version and publishes nothing; the actor goes on
\* with its queue, and every Steps request that would have been accepted
\* before it is accepted after it (and no other).
C34_EmptyBatchNoOp ==
    /\ [](\A c \in ChannelIDs :
            (last[c].set /\ last[c].steps = <<>>) =>
                (Dropped(last[c]) /\ ~last[c].panicked))
    /\ [][\A c \in ChannelIDs :
            EmptyBatch(c) =>
                /\ doc'[c] = doc[c] /\ version'[c] = version[c]
                /\ bct' = bct /\ npub' = npub
                /\ apc'[c] = "run"
                /\ reqq'[c] = Tail(reqq[c])
                /\ \A r \in StepsRequests : Accepts(c, r)' <=> Accepts(c, r)]_vars

\* An empty batch declaring the current version was handled, and the next
\* request in the queue is a batch for that same version that is accepted.
C34_Witness ==
    \E c \in ChannelIDs :
        /\ last[c].set /\ last[c].steps = <<>>
        /\ last[c].declared = last[c].preVer
        /\ Dequeues(c, "Steps")
        /\ Head(reqq[c]).version = last[c].declared
        /\ Head(reqq[c]).steps = <<InsA>>
        /\ Accepts(c, Head(reqq[c]))
        /\ Subscribers(c) # {}

BarFree(t) == \A i \in 1..Len(t) : t[i] # Bar

\* The text is `chat`, a separator and a remainder.
IsChat(t) == Len(t) >= 2 /\ t[1] = "chat" /\ t[2] = Bar

\* What follows the separator of a chat text.
ChatRemainder(t) == SubSeq(t, 3, Len(t))

\* C35: split_arg of a text with a separator returns a head without a
\* separator and a rest such that head, separator, rest is the text; of a
\* text without one it returns the text and no rest.  A chat frame submits
\* one Chat request whose text is all that follows the first separator,
\* further separators included, and that is the text every broadcast of it
\* carries.
C35_SplitOnce ==
    /\ [](\A r \in sa_out :
            IF BarFree(sa_in)
            THEN ~r.some /\ r.cmd = sa_in
            ELSE /\ r.some /\ BarFree(r.cmd)
                 /\ r.cmd \o <<Bar>> \o r.arg = sa_in)
    /\ [](\A s \in Sessions : \A i \in 1..Len(bct[s]) :
            bct[s][i].kind = "ChatMessage" =>
                (IsChat(sa_in) /\ bct[s][i].text = ChatRemainder(sa_in)))
    /\ [][\A s \in Sessions :
            (IsChat(sa_in) /\ SessText(s, sa_in)) =>
                /\ Len(reqq'[chan[s]]) = Len(reqq[chan[s]]) + 1
                /\ reqq'[chan[s]][Len(reqq'[chan[s]])].kind = "Chat"
                /\ reqq'[chan[s]][Len(reqq'[chan[s]])].text = ChatRemainder(sa_in)
                /\ wsout' = wsout]_vars

\* The chat text x|x has reached the member as a broadcast, and split_arg
\* of the frame has returned chat and x|x.
C35_Witness ==
    /\ sa_in = <<"chat", Bar, "x", Bar, "x">>
    /\ sa_out = {[cmd |-> <<"chat">>, some |-> TRUE, arg |-> <<"x", Bar, "x">>]}
    /\ \E s \in Sessions :
           /\ bct[s] # <<>>
           /\ bct[s][1].kind = "ChatMessage"
           /\ bct[s][1].text = <<"x", Bar, "x">>

\* The actor of channel c is suspended in the Signal handler and the
\* session whose queue it waits on is suspended in handle_command, waiting
\* for the actor's reply to its Init.
MutualWait(c) ==
    /\ apc[c] = "sigwait"
    /\ pc[SessionOf(c, SignalTarget(held[c]))] = "initwait"

\* C36: the actor is never suspended in a request handler on a session that
\* is itself suspended waiting for the actor.
C36_NoMutualWait == \A c \in ChannelIDs : ~MutualWait(c)

\* C37: a batch the actor accepts after its author has left is handled like
\* any other, subscribers or none: the actor does not abort on it, and so
\* stays able to write the document when it is terminated.
C37_EditSurvivesDisconnect ==
    \A c \in ChannelIDs :
        (last[c].set /\ Applicable(last[c])) =>
            (~last[c].panicked /\ apc[c] # "panicked")

\* The sessions granted a join to channel c whose Close its actor has not
\* dequeued.
Attached(c) == {s \in SessionsOf(c) : s \notin closed}

\* C38: a channel's roster never has more members than the lobby counts
\* references for the channel, and each member is the UserID of a session
\* that was granted a join to the channel and whose Close the actor has not
\* dequeued.
C38_RosterWithinRefCount ==
    \A c \in ChannelIDs :
        /\ Cardinality(members[c]) <= RefCount(c)
        /\ \A u \in members[c] : \E s \in Attached(c) : uid[s] = u

\* Both members are in the roster with two references counted; one of them
\* has lost its connection and its session has ended without a Close.
C38_Witness ==
    \E c \in ChannelIDs : \E s \in Sessions :
        /\ Cardinality(members[c]) = 2 /\ RefCount(c) = 2
        /\ chan[s] = c /\ pc[s] = "aborted" /\ uid[s] \in members[c]

\* The paths the path map points to channel c with.
NamesOf(c) == {p \in AllPaths : channel_names[p] = c}

\* C39: every path of the path map points to an entry of the channel map
\* that stores that path, every entry of the channel map is pointed to by
\* exactly one path, and every stored reference count is at least 1.
C39_MapsConsistent ==
    /\ \A p \in AllPaths :
           channel_names[p] # NoChannel =>
               /\ channel_names[p] \in ChannelIDs
               /\ channels[channel_names[p]].live
               /\ channels[channel_names[p]].path = p
    /\ \A c \in ChannelIDs :
           IF channels[c].live
           THEN Cardinality(NamesOf(c)) = 1 /\ channels[c].count >= 1
           ELSE NamesOf(c) = {}

\* The first channel of /pad was removed on its last End and the path was
\* joined again: it now points to the second channel.
C39_Witness ==
    /\ ~channels[0].live /\ ended[0] = 1 /\ ter[0]
    /\ channels[1].live /\ channels[1].count = 1
    /\ channel_names[PadPath] = 1 /\ channels[1].path = PadPath

\* The actor of channel c handles an Init request and publishes NewUser.
AnnouncesOne(c) ==
    /\ Dequeues(c, "Init")
    /\ initDeq'[c] # initDeq[c]
    /\ npub'[c] # npub[c]

\* C40: the roster holds the users for which NewUser was published and no
\* Close has been handled since.  UserLeft(id) reaches a subscriber only for
\* a user in the roster, that is after NewUser(id); NewUser(id) is published
\* only for a user not in the roster, that is at most once between its join
\* and its Close.
C40_PresenceLifecycle ==
    [][\A c \in ChannelIDs :
          /\ (ClosesOne(c) /\ Subscribers(c) # {}) =>
                 Head(reqq[c]).src \in members[c]
          /\ AnnouncesOne(c) => Head(reqq[c]).src \notin members[c]]_vars

=============================================================================
